---------------------------- MODULE Spec2Model ----------------------------
(***************************************************************************)
(* Streaming speech-to-text session of services/asr_streaming/app.py.      *)
(*                                                                         *)
(* Units.  Time is counted in tenths of a second (the evaluation loop      *)
(* sleeps 0.1 s, so 1 = one tick period; 1.2 s = 12, 2.0 s = 20,           *)
(* 10.0 s = 100).  A speech probability is counted in thousandths          *)
(* (0.3 = 300, 0.9 = 900, 0.1 = 100, 0.0 = 0).  Audio is counted in        *)
(* samples, exactly as in the code (16000 samples per second).             *)
(*                                                                         *)
(* Buffers.  A buffer of samples is a sequence of runs.  A run             *)
(* [lo |-> p, n |-> k, v |-> a] stands for k consecutive samples, the      *)
(* p-th .. (p+k-1)-th samples the session ever appended, each of int16     *)
(* value a (the code stores the float a / 32768).                          *)
(*                                                                         *)
(* Text.  A text is a sequence of one-character strings.                   *)
(***************************************************************************)
EXTENDS Integers, Sequences, FiniteSets, TLC

VARIABLES
    conn,                  \* the transport: "open" or "closed" by the client
    rx,                    \* websocket_endpoint: "receiving", "disconnected", "error"
    frames,                \* number of non-empty frames received so far
    total_appended,        \* number of samples add_audio has appended so far
    arrived,               \* every sample add_audio was given so far, in order
    audio_buffer,          \* StreamingTranscriber.audio_buffer (deque, maxlen 480000)
    segment_buffer,        \* StreamingTranscriber.segment_buffer (list)
    last_speech_time,      \* StreamingTranscriber.last_speech_time
    segment_start_time,    \* StreamingTranscriber.segment_start_time
    current_text,          \* StreamingTranscriber.current_text
    finalized_segments,    \* StreamingTranscriber.finalized_segments
    pc,                    \* process_streaming: "sleep", "send_partial", "send_final",
                           \*   "cancelled" (CancelledError), "dead" (uncaught exception)
    current_time,          \* process_streaming: current_time of the latest tick
    last_transcribe_time,  \* process_streaming: last_transcribe_time
    ticks,                 \* number of ticks run so far
    tick,                  \* what the latest tick did (record, see NoTick)
    last_attempt,          \* tick time of the latest transcription call, -1 before
    last_attempt_sent,     \* the latest call's text was accepted and sent as a partial
    seg_first_seen,        \* time of the first tick that saw the present segment audio
    seg_first_speech,      \* time of the first tick that found speech in it, -1 before
    last_final_time,       \* time of the tick that emitted the latest final, -1 before
    untranscribed,         \* samples arrived after the latest transcription call of a segment with a text
    events,                \* messages the client was sent, in order
    cancel_requested,      \* process_task.cancel() was called
    pass_runs,             \* number of high-quality passes started
    full_audio_len,        \* len(full_audio) taken on disconnect, -1 before
    session_transcriptions,\* the registry session_transcriptions (a dict)
    vad_in,                \* check_vad studied alone: its argument
    vad_scorer,            \* check_vad studied alone: what vad_model does
    vad_out,               \* check_vad studied alone: its result
    dz_enabled,            \* DIARIZATION_ENABLED and diarization_pipeline is not None
    dz_turns,              \* the turns the diarization engine yields, or a turn list
    dz_segments,           \* result["segments"] of the timestamped transcription
    dz_out,                \* what the operation run on them returned (see NoDiarResult)
    sv_conns,              \* the server's connections (see NoConn)
    sv_running,            \* the coroutine that holds the event loop's thread
    sv_registry,           \* session_transcriptions, across connections
    sv_lookup,             \* response of the latest get_final_transcription
    sp_enabled,            \* EMBEDDING_ENABLED
    session_speaker_profiles, \* the registry session_speaker_profiles (a dict)
    sp_call,               \* the running or latest call of assign_persistent_speakers
    sp_calls,              \* number of calls of assign_persistent_speakers so far
    tts_model,             \* tts_py: tts_model, "None" or "loaded"
    model_loading,         \* tts_py: model_loading
    tts_loader,            \* tts_py: position of the thread of load_xtts_model
    tts_log                \* tts_py: the requests served so far and their responses

vars == <<conn, rx, frames, total_appended, arrived, audio_buffer, segment_buffer,
          last_speech_time, segment_start_time, current_text, finalized_segments,
          pc, current_time, last_transcribe_time, ticks, tick, last_attempt, last_attempt_sent,
          seg_first_seen, seg_first_speech, last_final_time, untranscribed, events,
          cancel_requested, pass_runs, full_audio_len,
          session_transcriptions, vad_in, vad_scorer, vad_out,
          dz_enabled, dz_turns, dz_segments, dz_out,
          sv_conns, sv_running, sv_registry, sv_lookup,
          sp_enabled, session_speaker_profiles, sp_call, sp_calls,
          tts_model, model_loading, tts_loader, tts_log>>

streamVars == <<conn, rx, frames, total_appended, arrived, audio_buffer, segment_buffer,
          last_speech_time, segment_start_time, current_text, finalized_segments,
          pc, current_time, last_transcribe_time, ticks, tick, last_attempt, last_attempt_sent,
          seg_first_seen, seg_first_speech, last_final_time, untranscribed, events,
          cancel_requested, pass_runs, full_audio_len,
          session_transcriptions>>

vadVars == <<vad_in, vad_scorer, vad_out>>

diarVars == <<dz_enabled, dz_turns, dz_segments, dz_out>>

serverVars == <<sv_conns, sv_running, sv_registry, sv_lookup>>

speakerVars == <<sp_enabled, session_speaker_profiles, sp_call, sp_calls>>

ttsVars == <<tts_model, model_loading, tts_loader, tts_log>>

-----------------------------------------------------------------------------
(* Program constants *)

SAMPLE_RATE == 16000
CHUNK_SIZE == 16000
VAD_THRESHOLD == 300
SILENCE_DURATION == 12
MAX_SEGMENT_DURATION == 100
min_transcribe_interval == 20
min_audio_length == SAMPLE_RATE * 3
BufferMaxLen == SAMPLE_RATE * 30
MinFinalAudio == SAMPLE_RATE * 2
VadWindowSamples == 512
TickPeriod == 1
SampleBytes == 2

(* Bounds of the model *)

MaxFrames == 2
MaxTicks == 2
MaxTime == 120
LongPause == 102

-----------------------------------------------------------------------------
(* Sample buffers *)

RECURSIVE BufLen(_)
BufLen(buf) ==
    IF buf = <<>> THEN 0 ELSE Head(buf).n + BufLen(Tail(buf))

\* the buffer without its k oldest samples
RECURSIVE DropOldest(_, _)
DropOldest(buf, k) ==
    IF k <= 0 \/ buf = <<>> THEN buf
    ELSE IF Head(buf).n <= k THEN DropOldest(Tail(buf), k - Head(buf).n)
    ELSE <<[lo |-> Head(buf).lo + k, n |-> Head(buf).n - k, v |-> Head(buf).v]>>
             \o Tail(buf)

\* Python's buf[-n:]
LastSamples(buf, n) ==
    IF BufLen(buf) > n THEN DropOldest(buf, BufLen(buf) - n) ELSE buf

\* mutant: a deque without maxlen
DequeExtendUnbounded(buf, chunk) == buf \o chunk

\* deque(maxlen = BufferMaxLen).extend(chunk)
DequeExtend(buf, chunk) == LastSamples(buf \o chunk, BufferMaxLen)

\* mutant: the chunk takes the place of the list
ListReplace(buf, chunk) == chunk

\* list.extend(chunk)
ListExtend(buf, chunk) == buf \o chunk

\* np.frombuffer(data, dtype=np.int16).astype(np.float32) / 32768.0 of a frame
\* of frame.bytes bytes whose samples all have the int16 value frame.v;
\* frombuffer raises ValueError when the size is no multiple of the item size
FrameDecodes(frame) == frame.bytes % SampleBytes = 0

FrameSamples(frame, appended) ==
    IF frame.bytes \div SampleBytes = 0 THEN <<>>
    ELSE <<[lo |-> appended + 1, n |-> frame.bytes \div SampleBytes, v |-> frame.v]>>

-----------------------------------------------------------------------------
(* Voice activity *)

RECURSIVE SumSq(_)
SumSq(buf) ==
    IF buf = <<>> THEN 0
    ELSE Head(buf).n * Head(buf).v * Head(buf).v + SumSq(Tail(buf))

\* np.sqrt(np.mean(chunk ** 2)) > 0.01 for samples v / 32768:
\* sum(v^2) / (N * 2^30) > 10^-4, that is sum(v^2) > N * 107374.1824, that is
\* (the sum being an integer) sum(v^2) > N * 107374 + floor(N * 114 / 625)
RmsAboveThreshold(chunk) ==
    SumSq(chunk) > BufLen(chunk) * 107374 + (BufLen(chunk) * 114) \div 625

RmsFallback(chunk) == IF RmsAboveThreshold(chunk) THEN 900 ELSE 100

\* mutant: no minimum length
check_vad_any_length(audio_chunk, scorer) ==
    LET window == LastSamples(audio_chunk, VadWindowSamples)
    IN  IF scorer.raises
        THEN [prob |-> RmsFallback(window), called |-> TRUE, raised |-> FALSE]
        ELSE [prob |-> scorer.prob, called |-> TRUE, raised |-> FALSE]

\* StreamingTranscriber.check_vad; scorer is what vad_model does on this call:
\* it raises, or returns the probability scorer.prob
check_vad(audio_chunk, scorer) ==
    IF BufLen(audio_chunk) < VadWindowSamples
    THEN [prob |-> 0, called |-> FALSE, raised |-> FALSE]
    ELSE LET window == LastSamples(audio_chunk, VadWindowSamples)
         IN  IF scorer.raises
             THEN [prob |-> RmsFallback(window), called |-> TRUE, raised |-> FALSE]
             ELSE [prob |-> scorer.prob, called |-> TRUE, raised |-> FALSE]

\* process_streaming, the tick's VAD step
TickVad(audio_chunk, scorer) ==
    LET r == check_vad(audio_chunk, scorer)
    IN  IF r.raised THEN RmsFallback(audio_chunk) ELSE r.prob

-----------------------------------------------------------------------------
(* Text *)

Whitespace == {" ", "\t", "\n"}

\* str.lower()
LowerChar(c) ==
    LET UpperCase == <<"A","B","C","D","E","F","G","H","I","J","K","L","M",
                       "N","O","P","Q","R","S","T","U","V","W","X","Y","Z">>
        LowerCase == <<"a","b","c","d","e","f","g","h","i","j","k","l","m",
                       "n","o","p","q","r","s","t","u","v","w","x","y","z">>
    IN  IF \E i \in 1..Len(UpperCase) : UpperCase[i] = c
        THEN LowerCase[CHOOSE i \in 1..Len(UpperCase) : UpperCase[i] = c]
        ELSE c

Lower(text) == [i \in 1..Len(text) |-> LowerChar(text[i])]

\* str.strip()
RECURSIVE LStrip(_)
LStrip(text) ==
    IF text # <<>> /\ Head(text) \in Whitespace THEN LStrip(Tail(text)) ELSE text

RECURSIVE RStrip(_)
RStrip(text) ==
    IF text # <<>> /\ text[Len(text)] \in Whitespace
    THEN RStrip(SubSeq(text, 1, Len(text) - 1))
    ELSE text

Strip(text) == RStrip(LStrip(text))

\* phrase in text
Contains(phrase, text) ==
    \E i \in 0..(Len(text) - Len(phrase)) :
        SubSeq(text, i + 1, i + Len(phrase)) = phrase

HallucinationPhrases ==
    { <<"t","h","a","n","k"," ","y","o","u">>,
      <<"t","h","a","n","k","s"," ","f","o","r"," ","w","a","t","c","h","i","n","g">>,
      <<"s","u","b","s","c","r","i","b","e">> }

MaxRepetitiveChars == 3

\* process_streaming: is_hallucination of a stripped text
IsHallucination(text) ==
    /\ text # <<>>
    /\ \/ \* len(set(text.replace(" ", ""))) <= 3
          Cardinality({text[i] : i \in 1..Len(text)} \ {" "}) <= MaxRepetitiveChars
       \/ \E phrase \in HallucinationPhrases : Contains(phrase, Lower(text))

\* process_streaming: what the transcription step of a tick yields.  tr is what
\* whisper_model.transcribe does on this call: it raises, or returns tr.text
Transcribe(tr) ==
    IF tr.raises THEN [outcome |-> "exception", text |-> <<>>]
    ELSE LET text == Strip(tr.text)
         IN  IF text = <<>> THEN [outcome |-> "empty", text |-> text]
             ELSE IF IsHallucination(text)
                  THEN [outcome |-> "hallucination", text |-> text]
                  ELSE [outcome |-> "accepted", text |-> text]

-----------------------------------------------------------------------------
(* Speaker diarization and its merge with the transcript.  A turn is a record
   [start, end, speaker], a transcript segment a record [text, start, end],
   with a fourth field speaker once a speaker is assigned; times in tenths of
   a second *)

\* smooth_speaker_changes: min_switch_duration = 0.5
DefaultMinSwitch == 5

DefaultSpeaker == "SPEAKER_00"

\* best_speaker = None
NoneSpeaker == "None"

\* a Python value that is a list of turns, or None
ListValue(list) == [none |-> FALSE, turns |-> list]

NoneValue == [none |-> TRUE, turns |-> <<>>]

\* perform_speaker_diarization: the body of the function ends with the early
\* return; when diarization is enabled the function reaches its end and
\* returns None, whatever the engine would yield
perform_speaker_diarization(enabled, engine_turns) ==
    IF ~enabled THEN ListValue(<<>>) ELSE NoneValue

\* mutant: the turn is compared with the input turn before it, kept or not
RECURSIVE SmoothFromByInput(_, _, _, _)
SmoothFromByInput(speaker_segments, i, smoothed, min_switch_duration) ==
    IF i > Len(speaker_segments) - 1 THEN smoothed
    ELSE LET current == speaker_segments[i]
             prev == speaker_segments[i - 1]
             next_seg == speaker_segments[i + 1]
         IN  IF /\ current.end - current.start < min_switch_duration
                /\ prev.speaker = next_seg.speaker
                /\ current.speaker # prev.speaker
             THEN SmoothFromByInput(speaker_segments, i + 1,
                                    [smoothed EXCEPT ![Len(smoothed)].end = current.end],
                                    min_switch_duration)
             ELSE SmoothFromByInput(speaker_segments, i + 1,
                                    Append(smoothed, current), min_switch_duration)

RECURSIVE SmoothFrom(_, _, _, _)
SmoothFrom(speaker_segments, i, smoothed, min_switch_duration) ==
    IF i > Len(speaker_segments) - 1 THEN smoothed
    ELSE LET current == speaker_segments[i]
             prev == smoothed[Len(smoothed)]
             next_seg == speaker_segments[i + 1]
         IN  IF /\ current.end - current.start < min_switch_duration
                /\ prev.speaker = next_seg.speaker
                /\ current.speaker # prev.speaker
             THEN SmoothFrom(speaker_segments, i + 1,
                             [smoothed EXCEPT ![Len(smoothed)].end = current.end],
                             min_switch_duration)
             ELSE SmoothFrom(speaker_segments, i + 1, Append(smoothed, current),
                             min_switch_duration)

\* mutant: the turn after a merged one is joined to the turn before it
smooth_speaker_changes_joined(speaker_segments, min_switch_duration) ==
    IF Len(speaker_segments) < 3 THEN speaker_segments
    ELSE LET smoothed == SmoothFrom(speaker_segments, 2, <<speaker_segments[1]>>,
                                    min_switch_duration)
             last == speaker_segments[Len(speaker_segments)]
         IN  IF smoothed[Len(smoothed)].speaker = last.speaker
                /\ smoothed[Len(smoothed)].end = last.start
             THEN [smoothed EXCEPT ![Len(smoothed)].end = last.end]
             ELSE Append(smoothed, last)

smooth_speaker_changes(speaker_segments, min_switch_duration) ==
    IF Len(speaker_segments) < 3 THEN speaker_segments
    ELSE Append(SmoothFrom(speaker_segments, 2, <<speaker_segments[1]>>,
                           min_switch_duration),
                speaker_segments[Len(speaker_segments)])

Max2(a, b) == IF a >= b THEN a ELSE b

Min2(a, b) == IF a <= b THEN a ELSE b

Abs(a) == IF a >= 0 THEN a ELSE -a

\* mutant: a later turn of equal overlap replaces the best one
BetterOrEqual(overlap, max_overlap) == overlap >= max_overlap

\* mutant: every overlapping turn replaces the best one
BetterAny(overlap, max_overlap) == overlap > 0

\* assign_speakers_to_segments: overlap > max_overlap
Better(overlap, max_overlap) == overlap > max_overlap

RECURSIVE BestByOverlap(_, _, _, _)
BestByOverlap(seg, turns, i, best) ==
    IF i > Len(turns) THEN best
    ELSE LET \* overlap of the transcript segment with the turn
             overlap == Max2(0, Min2(seg.end, turns[i].end)
                                - Max2(seg.start, turns[i].start))
         IN  BestByOverlap(seg, turns, i + 1,
                 IF Better(overlap, best.max_overlap)
                 THEN [best_speaker |-> turns[i].speaker, max_overlap |-> overlap]
                 ELSE best)

\* spk["start"] <= seg_mid <= spk["end"], seg_mid = (seg_start + seg_end) / 2
ContainsMid(spk, seg) ==
    2 * spk.start <= seg.start + seg.end /\ seg.start + seg.end <= 2 * spk.end

\* mutant: the last of the turns that contain the midpoint
LastContainingMid(seg, turns) ==
    IF \E i \in 1..Len(turns) : ContainsMid(turns[i], seg)
    THEN turns[CHOOSE i \in 1..Len(turns) :
                   /\ ContainsMid(turns[i], seg)
                   /\ \A j \in (i + 1)..Len(turns) : ~ContainsMid(turns[j], seg)].speaker
    ELSE NoneSpeaker

FirstContainingMid(seg, turns) ==
    IF \E i \in 1..Len(turns) : ContainsMid(turns[i], seg)
    THEN turns[CHOOSE i \in 1..Len(turns) :
                   /\ ContainsMid(turns[i], seg)
                   /\ \A j \in 1..(i - 1) : ~ContainsMid(turns[j], seg)].speaker
    ELSE NoneSpeaker

\* min(speaker_segments, key = ...): the first of the closest turns
Closest(seg, turns) ==
    LET \* twice min(abs(s["start"] - seg_mid), abs(s["end"] - seg_mid))
        MidDistance(spk) ==
            Min2(Abs(2 * spk.start - (seg.start + seg.end)),
                 Abs(2 * spk.end - (seg.start + seg.end)))
    IN  turns[CHOOSE i \in 1..Len(turns) :
                  /\ \A j \in 1..Len(turns) :
                         MidDistance(turns[i]) <= MidDistance(turns[j])
                  /\ \A j \in 1..(i - 1) :
                         MidDistance(turns[j]) > MidDistance(turns[i])].speaker

\* assign_speakers_to_segments: one transcript segment against a non-empty
\* turn list
AssignSpeaker(seg, turns) ==
    LET by_overlap == BestByOverlap(seg, turns, 1,
                          [best_speaker |-> NoneSpeaker, max_overlap |-> 0]).best_speaker
        by_mid == IF by_overlap = NoneSpeaker
                  THEN FirstContainingMid(seg, turns) ELSE by_overlap
        best_speaker == IF by_mid = NoneSpeaker THEN Closest(seg, turns) ELSE by_mid
    IN  [text |-> seg.text, start |-> seg.start, end |-> seg.end,
         speaker |-> IF best_speaker \in {NoneSpeaker, ""}
                     THEN DefaultSpeaker ELSE best_speaker]

assign_speakers_to_segments(transcription_segments, speaker_segments) ==
    IF \* not speaker_segments
       speaker_segments.none \/ speaker_segments.turns = <<>>
    THEN transcription_segments
    ELSE [i \in 1..Len(transcription_segments) |->
              AssignSpeaker(transcription_segments[i], speaker_segments.turns)]

\* the transcript segments of a timestamped transcription: those whose text is
\* non-empty after strip, with the text stripped
TranscriptionSegments(raw_segments) ==
    LET kept == SelectSeq(raw_segments, LAMBDA seg : Strip(seg.text) # <<>>)
    IN  [i \in 1..Len(kept) |->
             [text |-> Strip(kept[i].text), start |-> kept[i].start, end |-> kept[i].end]]

UniqueSpeakers(segments) ==
    LET \* s.get("speaker", "SPEAKER_00")
        SpeakerOf(seg) ==
            IF "speaker" \in DOMAIN seg THEN seg.speaker ELSE DefaultSpeaker
    IN  Cardinality({SpeakerOf(segments[i]) : i \in 1..Len(segments)})

\* steps 2 and 3 of the high-quality pass and of transcribe_with_diarization;
\* in the latter assign_persistent_speakers stands between the two, and it
\* returns an empty list or None as it is
MergeResult(enabled, engine_turns, raw_segments) ==
    LET speaker_segments == perform_speaker_diarization(enabled, engine_turns)
        segments == assign_speakers_to_segments(TranscriptionSegments(raw_segments),
                                                speaker_segments)
    IN  [segments |-> segments, num_speakers |-> UniqueSpeakers(segments)]

-----------------------------------------------------------------------------
(* Persistent speakers: assign_persistent_speakers and the registry
   session_speaker_profiles.  Here a time is a number of tenths of a sample,
   so that int(start * SAMPLE_RATE) has something to cut off; an embedding is
   a vector of two rationals, a record [num, den] in lowest terms; a cosine
   similarity is a record [dot, nn] that stands for dot / sqrt(nn) *)

\* SPEAKER_SIM_THRESHOLD = 0.82, in hundredths
SPEAKER_SIM_THRESHOLD == 82

\* MIN_EMBED_DURATION = 0.8, in tenths of a second
MIN_EMBED_DURATION == 8

TimeUnitsPerSample == 10

\* f"SPEAKER_{next_id:02d}"
FormatSpeakerId(next_id) ==
    LET SpeakerIdTable ==
            << "SPEAKER_00", "SPEAKER_01", "SPEAKER_02", "SPEAKER_03", "SPEAKER_04",
               "SPEAKER_05", "SPEAKER_06", "SPEAKER_07", "SPEAKER_08", "SPEAKER_09" >>
    IN  SpeakerIdTable[next_id + 1]

RECURSIVE GCD(_, _)
GCD(a, b) == IF b = 0 THEN a ELSE GCD(b, a % b)

\* _cosine_similarity: 0.0 when a norm is zero; the denominators of the two
\* vectors are positive and cancel
_cosine_similarity(a, b) ==
    LET NormSq(v) == v.num[1] * v.num[1] + v.num[2] * v.num[2]
    IN  IF NormSq(a) * NormSq(b) = 0 THEN [dot |-> 0, nn |-> 1]
        ELSE [dot |-> a.num[1] * b.num[1] + a.num[2] * b.num[2],
              nn |-> NormSq(a) * NormSq(b)]

\* sim > best_sim
SimGreater(sim, best_sim) ==
    LET SignedSquare(x) == IF x >= 0 THEN x * x ELSE -(x * x)
    IN  SignedSquare(sim.dot) * best_sim.nn > SignedSquare(best_sim.dot) * sim.nn

\* best_sim >= SPEAKER_SIM_THRESHOLD
SimAtLeast(sim, hundredths) ==
    /\ sim.dot >= 0
    /\ 10000 * sim.dot * sim.dot >= hundredths * hundredths * sim.nn

\* best_sim = -1.0
MinusOne == [dot |-> -1, nn |-> 1]

NoEmbedding == [none |-> TRUE, emb |-> [num |-> <<0, 0>>, den |-> 1]]

\* mutant: a span of any length is embedded
_compute_embedding_any_length(enabled, audio_len, start, end, voice) ==
    IF ~enabled THEN NoEmbedding ELSE [none |-> FALSE, emb |-> voice]

\* _compute_embedding: voice is what embedding_inference returns for the span
_compute_embedding(enabled, audio_len, start, end, voice) ==
    IF ~enabled THEN NoEmbedding
    ELSE LET start_idx == Max2(0, start \div TimeUnitsPerSample)
             end_idx == Min2(audio_len, end \div TimeUnitsPerSample)
         IN  IF end_idx <= start_idx THEN NoEmbedding
             ELSE IF end_idx - start_idx < (MIN_EMBED_DURATION * SAMPLE_RATE) \div 10
                  THEN NoEmbedding
             ELSE [none |-> FALSE, emb |-> voice]

\* mutant: a later profile of equal similarity replaces the best one
BestProfileLast(emb, profiles) ==
    IF profiles = <<>> THEN [best_id |-> NoneSpeaker, best_sim |-> MinusOne]
    ELSE LET k == CHOOSE k \in 1..Len(profiles) :
                      /\ \A j \in 1..Len(profiles) :
                             ~SimGreater(_cosine_similarity(emb, profiles[j].embedding),
                                         _cosine_similarity(emb, profiles[k].embedding))
                      /\ \A j \in (k + 1)..Len(profiles) :
                             SimGreater(_cosine_similarity(emb, profiles[k].embedding),
                                        _cosine_similarity(emb, profiles[j].embedding))
         IN  [best_id |-> profiles[k].id,
              best_sim |-> _cosine_similarity(emb, profiles[k].embedding)]

RECURSIVE BestProfileFrom(_, _, _, _)
BestProfileFrom(emb, profiles, k, best) ==
    IF k > Len(profiles) THEN best
    ELSE LET sim == _cosine_similarity(emb, profiles[k].embedding)
         IN  BestProfileFrom(emb, profiles, k + 1,
                 IF SimGreater(sim, best.best_sim)
                 THEN [best_id |-> profiles[k].id, best_sim |-> sim]
                 ELSE best)

\* assign_persistent_speakers: the loop over the profiles
BestProfile(emb, profiles) ==
    BestProfileFrom(emb, profiles, 1, [best_id |-> NoneSpeaker, best_sim |-> MinusOne])

\* mutant: the new embedding replaces the centroid
RunningMeanLatest(embedding, count, emb) == emb

\* (profile["embedding"] * count + emb) / (count + 1)
RunningMean(embedding, count, emb) ==
    LET v == [num |-> << embedding.num[1] * count * emb.den + emb.num[1] * embedding.den,
                         embedding.num[2] * count * emb.den + emb.num[2] * embedding.den >>,
              den |-> embedding.den * emb.den * (count + 1)]
        g == GCD(GCD(Abs(v.num[1]), Abs(v.num[2])), v.den)
    IN  \* the vector of rationals in lowest terms
        [num |-> <<v.num[1] \div g, v.num[2] \div g>>, den |-> v.den \div g]

\* the first profile of the id takes the embedding in
MergeIntoProfile(profiles, best_id, emb) ==
    LET k == CHOOSE k \in 1..Len(profiles) :
                 /\ profiles[k].id = best_id
                 /\ \A j \in 1..(k - 1) : profiles[j].id # best_id
    IN  [profiles EXCEPT ![k] = [id |-> profiles[k].id,
                                 embedding |-> RunningMean(profiles[k].embedding,
                                                           profiles[k].count, emb),
                                 count |-> profiles[k].count + 1]]

\* mutant: the new profile takes the id of the profile before it
NewProfileSameId(state, emb) ==
    [next_id |-> state.next_id + 1,
     profiles |-> Append(state.profiles,
                         [id |-> FormatSpeakerId(Max2(0, state.next_id - 1)),
                          embedding |-> emb, count |-> 1])]

NewProfile(state, emb) ==
    [next_id |-> state.next_id + 1,
     profiles |-> Append(state.profiles,
                         [id |-> FormatSpeakerId(state.next_id),
                          embedding |-> emb, count |-> 1])]

\* mutant: every call starts the session's state anew
_get_session_state_anew(registry, id) ==
    [k \in DOMAIN registry \cup {id} |->
         IF k = id THEN [next_id |-> 0, profiles |-> <<>>] ELSE registry[k]]

\* _get_session_state
_get_session_state(registry, id) ==
    IF id \in DOMAIN registry THEN registry
    ELSE (id :> [next_id |-> 0, profiles |-> <<>>]) @@ registry

\* mutant: a cached label is resolved again
CachedNever(label, label_cache) == FALSE

\* label in label_cache
Cached(label, label_cache) == label \in DOMAIN label_cache

\* assign_persistent_speakers: one pass of the loop over the turns, on the
\* turn call.i; the result is the call and the session's state after it
AssignTurn(call, state, enabled) ==
    LET seg == call.speaker_segments[call.i]
        label == seg.speaker
        next == [call EXCEPT !.i = call.i + 1]
    IN  IF Cached(label, call.label_cache)
        THEN [call |-> [next EXCEPT !.speaker_segments[call.i].speaker =
                                        call.label_cache[label]],
              state |-> state]
        ELSE LET e == _compute_embedding(enabled, call.audio_len, seg.start, seg.end,
                                        seg.voice)
                 tried == [next EXCEPT !.computed = Append(call.computed, call.i)]
             IN  IF e.none THEN [call |-> tried, state |-> state]
                 ELSE LET best == BestProfile(e.emb, state.profiles)
                      IN  IF /\ best.best_id # NoneSpeaker
                             /\ SimAtLeast(best.best_sim, SPEAKER_SIM_THRESHOLD)
                          THEN [call |-> [tried EXCEPT
                                    !.speaker_segments[call.i].speaker = best.best_id,
                                    !.label_cache = (label :> best.best_id) @@ call.label_cache],
                                state |-> [state EXCEPT !.profiles =
                                    MergeIntoProfile(state.profiles, best.best_id, e.emb)]]
                          ELSE [call |-> [tried EXCEPT
                                    !.speaker_segments[call.i].speaker =
                                        FormatSpeakerId(state.next_id),
                                    !.label_cache = (label :> FormatSpeakerId(state.next_id))
                                                        @@ call.label_cache],
                                state |-> NewProfile(state, e.emb)]

-----------------------------------------------------------------------------
(* The evaluation loop: StreamingTranscriber.process_streaming *)

\* the tick is skipped: too little audio in the segment buffer
TickSkipped(seg) == BufLen(seg) < CHUNK_SIZE

\* np.array(list(self.segment_buffer)[-CHUNK_SIZE:])
VadChunk(seg) == LastSamples(seg, CHUNK_SIZE)

SpeechDetected(speech_prob) == speech_prob > VAD_THRESHOLD

ShouldTranscribeAnyLength(now, last_transcribe, seg) ==
    now - last_transcribe >= min_transcribe_interval

\* time_since_last >= min_transcribe_interval and has_enough_audio
ShouldTranscribe(now, last_transcribe, seg) ==
    /\ now - last_transcribe >= min_transcribe_interval
    /\ BufLen(seg) >= min_audio_length

ShouldFinalizeBySilence(now, last_speech, segment_start, text) ==
    now - last_speech >= SILENCE_DURATION /\ text # <<>>

\* mutant: a segment with a partial text is finalized whatever its duration
ShouldFinalizeAnyDuration(now, last_speech, segment_start, text) == text # <<>>

\* should_finalize
ShouldFinalize(now, last_speech, segment_start, text) ==
    \/ now - last_speech >= SILENCE_DURATION /\ text # <<>>
    \/ now - segment_start >= MAX_SEGMENT_DURATION /\ text # <<>>

\* reason, as logged
FinalizeReason(now, last_speech, segment_start, text) ==
    IF ~ShouldFinalize(now, last_speech, segment_start, text) THEN "none"
    ELSE IF now - last_speech >= SILENCE_DURATION THEN "silence" ELSE "max"

\* mutant: an exception of the transcription leaves the loop
PcAfterTranscribeUncaught(outcome, finalize) ==
    IF outcome = "exception" THEN "dead"
    ELSE IF outcome = "accepted" THEN "send_partial"
    ELSE IF finalize THEN "send_final" ELSE "sleep"

\* where the loop stands after the transcription step of a tick: an accepted
\* text is sent as a partial; every other outcome, an exception included, falls
\* through to the finalize check
PcAfterTranscribe(outcome, finalize) ==
    IF outcome = "accepted" THEN "send_partial"
    ELSE IF finalize THEN "send_final" ELSE "sleep"

\* websocket.send_json returns when the transport is open and raises otherwise
SendSucceeds(c) == c = "open"

\* mutant: the final event carries no text
FinalEventWithoutText(text) == [type |-> "final", text |-> <<>>, is_final |-> TRUE]

\* mutant: the partial event carries no text
PartialEventWithoutText(text) == [type |-> "partial", text |-> <<>>, is_final |-> FALSE]

PartialEvent(text) == [type |-> "partial", text |-> text, is_final |-> FALSE]
FinalEvent(text) == [type |-> "final", text |-> text, is_final |-> TRUE]

NoTick == [skipped |-> TRUE, speech |-> FALSE, transcribed |-> FALSE,
           outcome |-> "none", raw |-> <<>>, fin |-> "none"]

-----------------------------------------------------------------------------
(* What the environment can do *)

\* time between the starts of two ticks: the sleep of 0.1 s plus whatever the
\* blocking calls of the tick before took
Deltas == {TickPeriod, min_transcribe_interval, LongPause}

\* what vad_model does on a call
Scorers == { [raises |-> TRUE, prob |-> 0],
             [raises |-> FALSE, prob |-> 300],
             [raises |-> FALSE, prob |-> 900] }

\* what whisper_model.transcribe does on a call
Transcriptions ==
    LET RawTexts ==
            { <<" ", "\n">>,
              <<"a", " ", "b", "c">>,
              <<" ", "T", "h", "a", "n", "k", " ", "y", "o", "u", ".">>,
              <<" ", "h", "e", "l", "l", "o", " ">> }
    IN  { [raises |-> TRUE, text |-> <<>>] } \cup
        { [raises |-> FALSE, text |-> t] : t \in RawTexts }

\* what whisper_model.transcribe does on a call of a loop that keeps ticking:
\* the text can differ from one call to the next
LiveTranscriptions ==
    Transcriptions \cup { [raises |-> FALSE, text |-> <<"o", "k", "a", "y">>] }

\* binary frames a client sends: an empty one, one of an odd number of bytes,
\* 2 s and 3 s of audio, and one frame of 28.125 s
Frames ==
    { [bytes |-> 0, v |-> 0],
      [bytes |-> 16001, v |-> 328],
      [bytes |-> 64000, v |-> 327],
      [bytes |-> 96000, v |-> 328],
      [bytes |-> 900000, v |-> 327] }

PassOutcomes == {"ok", "fail"}

session_id == "s1"

EmptyDict == [k \in {} |-> 0]

-----------------------------------------------------------------------------
(* The session *)

InitStream ==
    /\ conn = "open"
    /\ rx = "receiving"
    /\ frames = 0
    /\ total_appended = 0
    /\ arrived = <<>>
    /\ audio_buffer = <<>>
    /\ segment_buffer = <<>>
    /\ last_speech_time = 0
    /\ segment_start_time = 0
    /\ current_text = <<>>
    /\ finalized_segments = <<>>
    /\ pc = "sleep"
    /\ current_time = 0
    /\ last_transcribe_time = 0
    /\ ticks = 0
    /\ tick = NoTick
    /\ last_attempt = -1
    /\ last_attempt_sent = FALSE
    /\ seg_first_seen = -1
    /\ seg_first_speech = -1
    /\ last_final_time = -1
    /\ untranscribed = FALSE
    /\ events = <<>>
    /\ cancel_requested = FALSE
    /\ pass_runs = 0
    /\ full_audio_len = -1
    /\ session_transcriptions = EmptyDict

NoVadResult == [done |-> FALSE, prob |-> 0, called |-> FALSE, raised |-> FALSE,
                tick_prob |-> 0]

\* check_vad is not studied
InitVadIdle ==
    /\ vad_in = <<>>
    /\ vad_scorer = [raises |-> FALSE, prob |-> 0]
    /\ vad_out = NoVadResult

\* the connections the server sees, and the session ids clients give;
\* "unknown" is the id of a connection opened without a session_id
Conns == {1, 2}

SessionIds == {"unknown", "s1"}

\* a connection: st is "none" (not yet made), "pending" (made by the client,
\* not yet accepted), "open", "closed" (by the client, the disconnect not yet
\* handled), "passing" (in the high-quality pass) or "ended"; inbox counts the
\* frames that arrived and were not yet received; rolling_appends and
\* segment_appends count the extends of the two buffers; read holds both
\* counts as the latest read of a buffer found them; pass is the outcome of
\* the high-quality pass

\* no coroutine runs: the event loop waits
Idle == [c |-> 0, at |-> "idle"]

NoResult == [by |-> 0]

\* the server is not studied
InitServerIdle ==
    /\ sv_conns = [c \in Conns |->
                       [st |-> "none", id |-> "", inbox |-> 0, rolling_appends |-> 0,
                        segment_appends |-> 0, read |-> [rolling |-> 0, segment |-> 0],
                        pass |-> "none"]]
    /\ sv_running = Idle
    /\ sv_registry = EmptyDict
    /\ sv_lookup = [id |-> "", found |-> FALSE, data |-> NoResult]

NoDiarResult == [op |-> "none", value |-> NoneValue, turns |-> <<>>,
                 segments |-> <<>>, num_speakers |-> 0, status |-> 0]

\* the diarization operations are not studied
InitDiarIdle ==
    /\ dz_enabled = FALSE
    /\ dz_turns = <<>>
    /\ dz_segments = <<>>
    /\ dz_out = NoDiarResult

\* assign_persistent_speakers is not studied: no call was made
NoSpeakerCall == [st |-> "none", session_id |-> "", audio_len |-> 0, raw |-> <<>>,
                  speaker_segments |-> <<>>, i |-> 0, label_cache |-> EmptyDict,
                  computed |-> <<>>]

InitSpeakersIdle ==
    /\ sp_enabled = FALSE
    /\ session_speaker_profiles = EmptyDict
    /\ sp_call = NoSpeakerCall
    /\ sp_calls = 0

\* the text-to-speech service is not studied
InitTtsIdle ==
    /\ tts_model = "None"
    /\ model_loading = TRUE
    /\ tts_loader = "not started"
    /\ tts_log = <<>>

Init ==
    /\ InitStream
    /\ InitVadIdle
    /\ InitDiarIdle
    /\ InitServerIdle
    /\ InitSpeakersIdle
    /\ InitTtsIdle

\* websocket_endpoint: one frame received; StreamingTranscriber.add_audio
ReceiveFrame(frame) ==
    /\ rx = "receiving"
    /\ conn = "open"
    /\ frames < MaxFrames
    /\ IF frame.bytes = 0
       THEN UNCHANGED <<rx, cancel_requested, audio_buffer, segment_buffer,
                        total_appended, arrived, untranscribed, frames>>
       ELSE IF ~FrameDecodes(frame)
       THEN /\ rx' = "error"
            /\ cancel_requested' = TRUE
            /\ frames' = frames + 1
            /\ UNCHANGED <<audio_buffer, segment_buffer, total_appended, arrived,
                           untranscribed>>
       ELSE LET audio_chunk == FrameSamples(frame, total_appended)
            IN  /\ audio_buffer' = DequeExtend(audio_buffer, audio_chunk)
                /\ segment_buffer' = ListExtend(segment_buffer, audio_chunk)
                /\ total_appended' = total_appended + BufLen(audio_chunk)
                /\ arrived' = arrived \o audio_chunk
                /\ untranscribed' = (untranscribed \/ (audio_chunk # <<>> /\ current_text # <<>>))
                /\ frames' = frames + 1
                /\ UNCHANGED <<rx, cancel_requested>>
    /\ UNCHANGED <<conn, last_speech_time, segment_start_time, current_text,
                   finalized_segments, pc, current_time, last_transcribe_time,
                   ticks, tick, last_attempt, last_attempt_sent, seg_first_seen,
                   seg_first_speech, last_final_time, events, pass_runs,
                   full_audio_len, session_transcriptions>>
    /\ UNCHANGED <<vadVars, diarVars, serverVars, speakerVars, ttsVars>>

\* the client goes away
ClientClose ==
    /\ conn = "open"
    /\ rx = "receiving"
    /\ conn' = "closed"
    /\ UNCHANGED <<rx, frames, total_appended, arrived, audio_buffer, segment_buffer,
                   last_speech_time, segment_start_time, current_text,
                   finalized_segments, pc, current_time, last_transcribe_time,
                   ticks, tick, last_attempt, last_attempt_sent, seg_first_seen,
                   seg_first_speech, last_final_time, untranscribed, events,
                   cancel_requested, pass_runs, full_audio_len,
                   session_transcriptions>>
    /\ UNCHANGED <<vadVars, diarVars, serverVars, speakerVars, ttsVars>>

\* mutant: the pass also runs on exactly 2 s of audio
RunsFinalPassAtTwoSeconds(n) == n >= MinFinalAudio

\* len(full_audio) > SAMPLE_RATE * 2
RunsFinalPass(n) == n > MinFinalAudio

StoreResult(registry, id, result) ==
    [k \in (DOMAIN registry) \cup {id} |-> IF k = id THEN result ELSE registry[k]]

\* websocket_endpoint, except WebSocketDisconnect: the handler holds no await,
\* so it runs as one step
Disconnect(outcome) ==
    /\ rx = "receiving"
    /\ conn = "closed"
    /\ rx' = "disconnected"
    /\ cancel_requested' = TRUE
    /\ full_audio_len' = BufLen(audio_buffer)
    /\ IF RunsFinalPass(BufLen(audio_buffer))
       THEN /\ pass_runs' = pass_runs + 1
            /\ session_transcriptions' =
                   IF outcome = "ok"
                   THEN StoreResult(session_transcriptions, session_id,
                                    [samples |-> BufLen(audio_buffer)])
                   ELSE session_transcriptions
       ELSE UNCHANGED <<pass_runs, session_transcriptions>>
    /\ UNCHANGED <<conn, frames, total_appended, arrived, audio_buffer, segment_buffer,
                   last_speech_time, segment_start_time, current_text,
                   finalized_segments, pc, current_time, last_transcribe_time,
                   ticks, tick, last_attempt, last_attempt_sent, seg_first_seen,
                   seg_first_speech, last_final_time, untranscribed, events>>
    /\ UNCHANGED <<vadVars, diarVars, serverVars, speakerVars, ttsVars>>

\* whether the tick that starts d after the one before calls the transcription
TickTranscribes(d, scorer) ==
    /\ ~TickSkipped(segment_buffer)
    /\ SpeechDetected(TickVad(VadChunk(segment_buffer), scorer))
    /\ ShouldTranscribe(current_time + d, last_transcribe_time, segment_buffer)

\* process_streaming: one tick, from the return of asyncio.sleep to the next await
TickStep(d, scorer, tr) ==
    /\ pc = "sleep"
    /\ ~cancel_requested
    /\ current_time' = current_time + d
    /\ seg_first_seen' = IF segment_buffer # <<>> /\ seg_first_seen = -1
                         THEN current_time + d ELSE seg_first_seen
    /\ seg_first_speech' =
           IF /\ seg_first_speech = -1
              /\ ~TickSkipped(segment_buffer)
              /\ SpeechDetected(TickVad(VadChunk(segment_buffer), scorer))
           THEN current_time + d ELSE seg_first_speech
    /\ untranscribed' = IF TickTranscribes(d, scorer) THEN FALSE ELSE untranscribed
    /\ IF TickSkipped(segment_buffer)
       THEN /\ tick' = NoTick
            /\ UNCHANGED <<last_speech_time, current_text, pc, last_attempt,
                             last_attempt_sent>>
       ELSE LET now == current_time + d
                speech_prob == TickVad(VadChunk(segment_buffer), scorer)
                speech == SpeechDetected(speech_prob)
                last_speech == IF speech THEN now ELSE last_speech_time
                transcribes == TickTranscribes(d, scorer)
                res == IF transcribes THEN Transcribe(tr)
                       ELSE [outcome |-> "none", text |-> <<>>]
                text == IF res.outcome = "accepted" THEN res.text ELSE current_text
            IN  /\ last_speech_time' = last_speech
                /\ current_text' = text
                /\ pc' = PcAfterTranscribe(res.outcome,
                             ShouldFinalize(now, last_speech, segment_start_time, text))
                /\ last_attempt' = IF transcribes THEN now ELSE last_attempt
                /\ last_attempt_sent' = IF transcribes THEN FALSE ELSE last_attempt_sent
                /\ tick' = [skipped |-> FALSE, speech |-> speech,
                            transcribed |-> transcribes,
                            outcome |-> res.outcome,
                            raw |-> IF transcribes /\ ~tr.raises THEN tr.text ELSE <<>>,
                            fin |-> IF res.outcome = "accepted" THEN "none"
                                    ELSE FinalizeReason(now, last_speech,
                                                        segment_start_time, text)]
    /\ UNCHANGED <<conn, rx, frames, total_appended, arrived, audio_buffer, segment_buffer,
                   segment_start_time, finalized_segments, last_transcribe_time,
                   last_final_time, events, cancel_requested, pass_runs,
                   full_audio_len, session_transcriptions>>
    /\ UNCHANGED <<vadVars, diarVars, serverVars, speakerVars, ttsVars>>

\* a tick of a session that is observed for MaxTicks ticks
Tick(d, scorer, tr) ==
    /\ ticks < MaxTicks
    /\ ticks' = ticks + 1
    /\ TickStep(d, scorer, tr)

\* a tick of a session that is observed until the clock reads MaxTime
LiveTick(d, scorer, tr) ==
    /\ current_time + d <= MaxTime
    /\ UNCHANGED ticks
    /\ TickStep(d, scorer, tr)

\* process_streaming: the await of the partial's send_json returns or raises; an
\* exception is caught by the except of the transcription step; then the
\* finalize check
SendPartial ==
    /\ pc = "send_partial"
    /\ ~cancel_requested
    /\ events' = IF SendSucceeds(conn)
                 THEN Append(events, PartialEvent(current_text)) ELSE events
    /\ last_transcribe_time' = IF SendSucceeds(conn)
                               THEN current_time ELSE last_transcribe_time
    /\ last_attempt_sent' = SendSucceeds(conn)
    /\ pc' = IF ShouldFinalize(current_time, last_speech_time, segment_start_time,
                               current_text)
             THEN "send_final" ELSE "sleep"
    /\ tick' = [tick EXCEPT !.fin = FinalizeReason(current_time, last_speech_time,
                                                   segment_start_time, current_text)]
    /\ UNCHANGED <<conn, rx, frames, total_appended, arrived, audio_buffer, segment_buffer,
                   last_speech_time, segment_start_time, current_text,
                   finalized_segments, current_time, ticks, last_attempt,
                   seg_first_seen, seg_first_speech, last_final_time, untranscribed,
                   cancel_requested, pass_runs, full_audio_len,
                   session_transcriptions>>
    /\ UNCHANGED <<vadVars, diarVars, serverVars, speakerVars, ttsVars>>

\* process_streaming: the await of the final's send_json returns, and the
\* segment is closed; or it raises, and nothing catches the exception
SendFinal ==
    /\ pc = "send_final"
    /\ ~cancel_requested
    /\ IF SendSucceeds(conn)
       THEN /\ events' = Append(events, FinalEvent(current_text))
            /\ finalized_segments' = Append(finalized_segments, current_text)
            /\ current_text' = <<>>
            /\ segment_buffer' = <<>>
            /\ segment_start_time' = current_time
            /\ seg_first_seen' = -1
            /\ seg_first_speech' = -1
            /\ last_final_time' = current_time
            /\ untranscribed' = FALSE
            /\ pc' = "sleep"
       ELSE /\ pc' = "dead"
            /\ UNCHANGED <<events, finalized_segments, current_text, segment_buffer,
                           segment_start_time, seg_first_seen, seg_first_speech,
                           last_final_time, untranscribed>>
    /\ UNCHANGED <<conn, rx, frames, total_appended, arrived, audio_buffer, last_speech_time,
                   current_time, last_transcribe_time, ticks, tick, last_attempt,
                   last_attempt_sent, cancel_requested, pass_runs,
                   full_audio_len, session_transcriptions>>
    /\ UNCHANGED <<vadVars, diarVars, serverVars, speakerVars, ttsVars>>

\* process_streaming: CancelledError is raised at the await the task stands at
Cancelled ==
    /\ pc \in {"sleep", "send_partial", "send_final"}
    /\ cancel_requested
    /\ pc' = "cancelled"
    /\ UNCHANGED <<conn, rx, frames, total_appended, arrived, audio_buffer, segment_buffer,
                   last_speech_time, segment_start_time, current_text,
                   finalized_segments, current_time, last_transcribe_time, ticks,
                   tick, last_attempt, last_attempt_sent, seg_first_seen,
                   seg_first_speech, last_final_time, untranscribed, events,
                   cancel_requested, pass_runs, full_audio_len,
                   session_transcriptions>>
    /\ UNCHANGED <<vadVars, diarVars, serverVars, speakerVars, ttsVars>>

\* the receiver task, awaiting websocket.receive_bytes
Receiver ==
    /\ rx = "receiving"
    /\ \/ conn = "open" /\ frames < MaxFrames /\ \E frame \in Frames : ReceiveFrame(frame)
       \/ \E outcome \in PassOutcomes : Disconnect(outcome)

\* the loop task, woken from asyncio.sleep
Ticks ==
    /\ pc = "sleep"
    /\ ~cancel_requested
    /\ ticks < MaxTicks
    /\ \E d \in Deltas, scorer \in Scorers :
           \E tr \in IF TickTranscribes(d, scorer) THEN Transcriptions
                      ELSE {[raises |-> FALSE, text |-> <<>>]} : Tick(d, scorer, tr)

\* the time from one tick to the next of a loop that keeps ticking: two
\* transcription intervals, or a whole segment duration
LiveDeltas == {2 * min_transcribe_interval, MAX_SEGMENT_DURATION}

\* the loop task, woken from asyncio.sleep, for as long as the clock is observed
LiveTicks ==
    /\ pc = "sleep"
    /\ ~cancel_requested
    /\ \E d \in LiveDeltas, scorer \in Scorers :
           \E tr \in IF TickTranscribes(d, scorer) THEN LiveTranscriptions
                      ELSE {[raises |-> FALSE, text |-> <<>>]} : LiveTick(d, scorer, tr)

Next ==
    \/ Receiver
    \/ ClientClose
    \/ Ticks
    \/ SendPartial
    \/ SendFinal
    \/ Cancelled

Spec == Init /\ [][Next]_vars

\* the next step of the loop task: a tick, or the return of a send
LiveLoop ==
    \/ LiveTicks
    \/ SendPartial
    \/ SendFinal

NextLive ==
    \/ Receiver
    \/ ClientClose
    \/ LiveLoop
    \/ Cancelled

\* asyncio resumes the loop task when its sleep is over and when its send has
\* completed or failed; nothing obliges the client to send or to close
SpecLive == Init /\ [][NextLive]_vars /\ WF_vars(LiveLoop)

-----------------------------------------------------------------------------
(* check_vad and the tick's VAD step on chunks of every kind, also those shorter
   than the loop ever passes *)

VadChunks ==
    LET VadLengths == {1, 100, 511, 512, 513}
        VadValues == {0, 327, 328, -328}
        VadRuns == [lo : {1}, n : VadLengths, v : VadValues]
    IN  {<<>>} \cup {<<r>> : r \in VadRuns}
               \cup {<<r, [s EXCEPT !.lo = r.n + 1]>> : r \in VadRuns, s \in VadRuns}

InitVad ==
    /\ InitStream
    /\ InitDiarIdle
    /\ InitServerIdle
    /\ InitSpeakersIdle
    /\ InitTtsIdle
    /\ vad_in \in VadChunks
    /\ vad_scorer \in Scorers \cup { [raises |-> FALSE, prob |-> 0],
                                    [raises |-> FALSE, prob |-> 301] }
    /\ vad_out = NoVadResult

CheckVad ==
    /\ ~vad_out.done
    /\ vad_out' = [done |-> TRUE,
                   prob |-> check_vad(vad_in, vad_scorer).prob,
                   called |-> check_vad(vad_in, vad_scorer).called,
                   raised |-> check_vad(vad_in, vad_scorer).raised,
                   tick_prob |-> TickVad(vad_in, vad_scorer)]
    /\ UNCHANGED <<vad_in, vad_scorer>>
    /\ UNCHANGED <<streamVars, diarVars, serverVars, speakerVars, ttsVars>>

NextVad == CheckVad

SpecVad == InitVad /\ [][NextVad]_vars

-----------------------------------------------------------------------------
(* The diarization operations on turn lists and transcripts of every kind *)

DiarTurns ==
    LET DiarTimes == {0, 3, 5, 8, 20, 30, 60}
        DiarSpeakers == {"A", "B"}
    IN  {t \in [start : DiarTimes, end : DiarTimes, speaker : DiarSpeakers] :
             t.start < t.end}

\* turn lists in the order of their starts, none overlapping the one before
TurnLists ==
    LET TurnPairs == {ab \in DiarTurns \X DiarTurns : ab[1].end <= ab[2].start}
    IN  {<<>>} \cup {<<a>> : a \in DiarTurns}
               \cup {<<ab[1], ab[2]>> : ab \in TurnPairs}
               \cup {abc \in {<<ab[1], ab[2], c>> : ab \in TurnPairs, c \in DiarTurns} :
                         abc[2].end <= abc[3].start}
               \cup {abcd \in {<<ab[1], ab[2], cd[1], cd[2]>> :
                                    ab \in TurnPairs, cd \in TurnPairs} :
                         abcd[2].end <= abcd[3].start}

\* result["segments"] of the transcription
SegmentLists ==
    { <<>>,
      << [text |-> <<"h", "i">>, start |-> 20, end |-> 35] >>,
      << [text |-> <<" ", "h", "i">>, start |-> 20, end |-> 40] >>,
      << [text |-> <<" ">>, start |-> 0, end |-> 3],
         [text |-> <<"y", "o", " ">>, start |-> 70, end |-> 80] >>,
      << [text |-> <<"h", "i">>, start |-> 1, end |-> 2],
         [text |-> <<"y", "o">>, start |-> 21, end |-> 28] >>,
      << [text |-> <<"o", "k">>, start |-> 30, end |-> 30] >> }

InitDiar ==
    /\ InitStream
    /\ InitVadIdle
    /\ InitServerIdle
    /\ InitSpeakersIdle
    /\ InitTtsIdle
    /\ dz_enabled \in BOOLEAN
    /\ dz_turns \in TurnLists
    /\ dz_segments \in SegmentLists
    /\ dz_out = NoDiarResult

\* perform_speaker_diarization called on audio for which the engine would
\* yield dz_turns
PerformDiarization ==
    /\ dz_out.op = "none"
    /\ dz_out' = [dz_out EXCEPT !.op = "perform",
                                !.value = perform_speaker_diarization(dz_enabled, dz_turns)]
    /\ UNCHANGED <<dz_enabled, dz_turns, dz_segments>>
    /\ UNCHANGED <<streamVars, vadVars, serverVars, speakerVars, ttsVars>>

\* smooth_speaker_changes called on dz_turns
SmoothTurns ==
    /\ dz_out.op = "none"
    /\ dz_out' = [dz_out EXCEPT !.op = "smooth",
                                !.turns = smooth_speaker_changes(dz_turns, DefaultMinSwitch)]
    /\ UNCHANGED <<dz_enabled, dz_turns, dz_segments>>
    /\ UNCHANGED <<streamVars, vadVars, serverVars, speakerVars, ttsVars>>

\* assign_speakers_to_segments called on the transcript segments and dz_turns
AlignSegments ==
    /\ dz_out.op = "none"
    /\ dz_out' = [dz_out EXCEPT !.op = "assign",
                                !.segments = assign_speakers_to_segments(
                                                 TranscriptionSegments(dz_segments),
                                                 ListValue(dz_turns))]
    /\ UNCHANGED <<dz_enabled, dz_turns, dz_segments>>
    /\ UNCHANGED <<streamVars, vadVars, serverVars, speakerVars, ttsVars>>

\* websocket_endpoint: the high-quality pass from the transcription to the
\* stored result; status 200 stands for a result stored, 500 for an exception
\* of the transcription, after which nothing is stored
HighQualityPass(raises) ==
    /\ dz_out.op = "none"
    /\ dz_out' = IF raises THEN [dz_out EXCEPT !.op = "pass", !.status = 500]
                 ELSE LET r == MergeResult(dz_enabled, dz_turns, dz_segments)
                      IN  [dz_out EXCEPT !.op = "pass", !.status = 200,
                                         !.segments = r.segments,
                                         !.num_speakers = r.num_speakers]
    /\ UNCHANGED <<dz_enabled, dz_turns, dz_segments>>
    /\ UNCHANGED <<streamVars, vadVars, serverVars, speakerVars, ttsVars>>

\* transcribe_with_diarization: the response, of status 200 or 500
TranscribeWithDiarization(raises) ==
    /\ dz_out.op = "none"
    /\ dz_out' = IF raises THEN [dz_out EXCEPT !.op = "batch", !.status = 500]
                 ELSE LET r == MergeResult(dz_enabled, dz_turns, dz_segments)
                      IN  [dz_out EXCEPT !.op = "batch", !.status = 200,
                                         !.segments = r.segments,
                                         !.num_speakers = r.num_speakers]
    /\ UNCHANGED <<dz_enabled, dz_turns, dz_segments>>
    /\ UNCHANGED <<streamVars, vadVars, serverVars, speakerVars, ttsVars>>

NextDiar ==
    \/ PerformDiarization
    \/ SmoothTurns
    \/ AlignSegments
    \/ \E raises \in BOOLEAN : HighQualityPass(raises)
    \/ \E raises \in BOOLEAN : TranscribeWithDiarization(raises)

SpecDiar == InitDiar /\ [][NextDiar]_vars

-----------------------------------------------------------------------------
(* assign_persistent_speakers called again and again, on turn lists of every
   kind *)

\* number of calls of assign_persistent_speakers
MaxCalls == 2

\* "" stands for a call without a session id
SpeakerSessionIds == {"", "s1", "s2"}

\* one second
Second == SAMPLE_RATE * TimeUnitsPerSample

\* len(audio_array): 4 s
SpeakerAudioLen == 4 * SAMPLE_RATE

\* the turns of a call.  A first turn: of 2.0 s; of 0.5 s; or from 1.00005 s to
\* 1.80000625 s, less than 0.8 s that hold 12800 samples.  A second turn: of
\* 1.0 s; of 0.5 s; or of 1.0 s of which 0.5 s lie beyond the end of the audio
SpeakerTurnLists ==
    LET \* labels of the diarization engine
        RawLabels == {"SPEAKER_00", "SPEAKER_01"}
        \* what embedding_inference returns
        Voices == { [num |-> <<1, 3>>, den |-> 1],
                    [num |-> <<3, 1>>, den |-> 1],
                    [num |-> <<1, 1>>, den |-> 1] }
        PlainVoice == [num |-> <<1, 1>>, den |-> 1]
        FirstTurns ==
            { [start |-> 0, end |-> 2 * Second, speaker |-> l, voice |-> v] :
                  l \in RawLabels, v \in Voices }
            \cup { [start |-> 0, end |-> Second \div 2, speaker |-> l,
                    voice |-> PlainVoice] : l \in RawLabels }
            \cup { [start |-> Second + 8, end |-> Second + (8 * Second) \div 10 + 1,
                    speaker |-> "SPEAKER_00", voice |-> PlainVoice] }
        SecondTurns ==
            { [start |-> 2 * Second, end |-> 3 * Second, speaker |-> l, voice |-> v] :
                  l \in RawLabels, v \in Voices }
            \cup { [start |-> 2 * Second, end |-> 2 * Second + Second \div 2,
                    speaker |-> l, voice |-> PlainVoice] : l \in RawLabels }
            \cup { [start |-> 3 * Second + Second \div 2,
                    end |-> 4 * Second + Second \div 2,
                    speaker |-> "SPEAKER_01", voice |-> PlainVoice] }
    IN  {<<>>} \cup {<<a>> : a \in FirstTurns \cup SecondTurns}
               \cup {<<a, b>> : a \in FirstTurns, b \in SecondTurns}

InitSpeakers ==
    /\ InitStream
    /\ InitVadIdle
    /\ InitDiarIdle
    /\ InitServerIdle
    /\ InitTtsIdle
    /\ sp_enabled \in BOOLEAN
    /\ session_speaker_profiles = EmptyDict
    /\ sp_call = NoSpeakerCall
    /\ sp_calls = 0

\* assign_persistent_speakers is called: it returns the turns as they are, or
\* takes the session's state and starts on the turns
CallAssign(id, turns) ==
    /\ sp_call.st \in {"none", "returned"}
    /\ sp_calls < MaxCalls
    /\ sp_calls' = sp_calls + 1
    /\ IF id = "" \/ turns = <<>> \/ ~sp_enabled
       THEN /\ sp_call' = [NoSpeakerCall EXCEPT !.st = "returned", !.session_id = id,
                                                !.audio_len = SpeakerAudioLen,
                                                !.raw = turns,
                                                !.speaker_segments = turns]
            /\ UNCHANGED session_speaker_profiles
       ELSE /\ sp_call' = [NoSpeakerCall EXCEPT !.st = "running", !.session_id = id,
                                                !.audio_len = SpeakerAudioLen,
                                                !.raw = turns,
                                                !.speaker_segments = turns, !.i = 1]
            /\ session_speaker_profiles' = _get_session_state(session_speaker_profiles, id)
    /\ UNCHANGED sp_enabled
    /\ UNCHANGED <<streamVars, vadVars, diarVars, serverVars, ttsVars>>

\* assign_persistent_speakers: the loop body on the next turn, and the return
\* after the last one
ProcessTurn ==
    /\ sp_call.st = "running"
    /\ LET r == AssignTurn(sp_call, session_speaker_profiles[sp_call.session_id],
                           sp_enabled)
       IN  /\ sp_call' = [r.call EXCEPT !.st = IF r.call.i > Len(sp_call.raw)
                                               THEN "returned" ELSE "running"]
           /\ session_speaker_profiles' =
                  [session_speaker_profiles EXCEPT ![sp_call.session_id] = r.state]
    /\ UNCHANGED <<sp_enabled, sp_calls>>
    /\ UNCHANGED <<streamVars, vadVars, diarVars, serverVars, ttsVars>>

NextSpeakers ==
    \/ \E id \in SpeakerSessionIds, turns \in SpeakerTurnLists : CallAssign(id, turns)
    \/ ProcessTurn

SpecSpeakers == InitSpeakers /\ [][NextSpeakers]_vars

-----------------------------------------------------------------------------
(* The text-to-speech service (tts_py): the model is loaded by a thread while
   requests are served *)

\* number of requests
MaxRequests == 2

\* the form field text
TtsTexts == { <<>>, <<" ">>, <<"h", "i">> }

\* what the body of the try of synthesize_with_voice comes to: a response, or
\* an exception raised; status 0 stands for an exception that is no
\* HTTPException
VoiceTry(text, model, loading, raises) ==
    IF Strip(text) = <<>> THEN [raised |-> TRUE, status |-> 400]
    ELSE IF model = "None" THEN [raised |-> TRUE, status |-> 503]
    ELSE IF raises THEN [raised |-> TRUE, status |-> 0]
    ELSE [raised |-> FALSE, status |-> 200]

\* synthesize_with_voice: the status of the response; HTTPException is an
\* Exception, so except Exception takes every raise of the try and raises
\* HTTPException(500)
synthesize_with_voice(text, model, loading, raises) ==
    IF VoiceTry(text, model, loading, raises).raised THEN 500
    ELSE VoiceTry(text, model, loading, raises).status

\* synthesize: the status of the response; XTTS when loaded, gTTS when not
\* or when XTTS fails
synthesize(text, model, xtts_raises, gtts_raises) ==
    IF Strip(text) = <<>> THEN 500
    ELSE LET use_gtts == model = "None" \/ xtts_raises
         IN  IF use_gtts /\ gtts_raises THEN 500 ELSE 200

InitTts ==
    /\ InitStream
    /\ InitVadIdle
    /\ InitDiarIdle
    /\ InitServerIdle
    /\ InitSpeakersIdle
    /\ InitTtsIdle

\* startup_event: the thread of load_xtts_model is started
Startup ==
    /\ tts_loader = "not started"
    /\ tts_loader' = "loading"
    /\ UNCHANGED <<tts_model, model_loading, tts_log>>
    /\ UNCHANGED <<streamVars, vadVars, diarVars, serverVars, speakerVars>>

\* load_xtts_model: TTS(...) returns and tts_model is assigned
LoadAssigns ==
    /\ tts_loader = "loading"
    /\ tts_model' = "loaded"
    /\ tts_loader' = "assigned"
    /\ UNCHANGED <<model_loading, tts_log>>
    /\ UNCHANGED <<streamVars, vadVars, diarVars, serverVars, speakerVars>>

\* load_xtts_model: TTS(...) raises
LoadRaises ==
    /\ tts_loader = "loading"
    /\ tts_loader' = "raised"
    /\ UNCHANGED <<tts_model, model_loading, tts_log>>
    /\ UNCHANGED <<streamVars, vadVars, diarVars, serverVars, speakerVars>>

\* load_xtts_model: finally
LoadFinally ==
    /\ tts_loader \in {"assigned", "raised"}
    /\ model_loading' = FALSE
    /\ tts_loader' = "done"
    /\ UNCHANGED <<tts_model, tts_log>>
    /\ UNCHANGED <<streamVars, vadVars, diarVars, serverVars, speakerVars>>

\* a request to /synthesize_with_voice and its response
SynthesizeWithVoice(text, raises) ==
    /\ tts_loader # "not started"
    /\ Len(tts_log) < MaxRequests
    /\ tts_log' = Append(tts_log,
           [endpoint |-> "synthesize_with_voice", text |-> text,
            tts_model |-> tts_model, model_loading |-> model_loading,
            status |-> synthesize_with_voice(text, tts_model, model_loading, raises)])
    /\ UNCHANGED <<tts_model, model_loading, tts_loader>>
    /\ UNCHANGED <<streamVars, vadVars, diarVars, serverVars, speakerVars>>

\* a request to /synthesize and its response
Synthesize(text, xtts_raises, gtts_raises) ==
    /\ tts_loader # "not started"
    /\ Len(tts_log) < MaxRequests
    /\ tts_log' = Append(tts_log,
           [endpoint |-> "synthesize", text |-> text,
            tts_model |-> tts_model, model_loading |-> model_loading,
            status |-> synthesize(text, tts_model, xtts_raises, gtts_raises)])
    /\ UNCHANGED <<tts_model, model_loading, tts_loader>>
    /\ UNCHANGED <<streamVars, vadVars, diarVars, serverVars, speakerVars>>

NextTts ==
    \/ Startup
    \/ LoadAssigns
    \/ LoadRaises
    \/ LoadFinally
    \/ \E text \in TtsTexts, raises \in BOOLEAN : SynthesizeWithVoice(text, raises)
    \/ \E text \in TtsTexts, xtts_raises \in BOOLEAN, gtts_raises \in BOOLEAN :
           Synthesize(text, xtts_raises, gtts_raises)

SpecTts == InitTts /\ [][NextTts]_vars

-----------------------------------------------------------------------------
(* The server: several connections on one event loop.  A coroutine runs from
   one await to the next without giving up the thread; a call that does not
   await keeps the thread until it returns *)

MaxServerFrames == 2

\* every frame carries 3 s of audio
ServerFrameSamples == 3 * SAMPLE_RATE


\* mutant: add_audio gives up the thread between its two extends
LoopFreeInAddAudio(running) == running.at \in {"idle", "add_audio"}

\* the event loop can run a coroutine that is ready
LoopFree(running) == running.at = "idle"

\* a client connects, with a session_id or without
ClientConnects(c, id) ==
    /\ sv_conns[c].st = "none"
    /\ sv_conns' = [sv_conns EXCEPT ![c].st = "pending", ![c].id = id]
    /\ UNCHANGED <<sv_running, sv_registry, sv_lookup>>
    /\ UNCHANGED <<streamVars, vadVars, diarVars, speakerVars, ttsVars>>

\* websocket_endpoint: accept, and the start of the loop task
Accept(c) ==
    /\ LoopFree(sv_running)
    /\ sv_conns[c].st = "pending"
    /\ sv_conns' = [sv_conns EXCEPT ![c].st = "open"]
    /\ UNCHANGED <<sv_running, sv_registry, sv_lookup>>
    /\ UNCHANGED <<streamVars, vadVars, diarVars, speakerVars, ttsVars>>

\* a frame of the client reaches the server
FrameArrives(c) ==
    /\ sv_conns[c].st = "open"
    /\ sv_conns[c].inbox + sv_conns[c].rolling_appends < MaxServerFrames
    /\ sv_conns' = [sv_conns EXCEPT ![c].inbox = @ + 1]
    /\ UNCHANGED <<sv_running, sv_registry, sv_lookup>>
    /\ UNCHANGED <<streamVars, vadVars, diarVars, speakerVars, ttsVars>>

\* websocket_endpoint: receive_bytes returns a frame; add_audio up to the
\* extend of the rolling buffer
ReceiveBytes(c) ==
    /\ LoopFree(sv_running)
    /\ sv_conns[c].st \in {"open", "closed"}
    /\ sv_conns[c].inbox > 0
    /\ sv_conns' = [sv_conns EXCEPT ![c].inbox = @ - 1, ![c].rolling_appends = @ + 1]
    /\ sv_running' = [c |-> c, at |-> "add_audio"]
    /\ UNCHANGED <<sv_registry, sv_lookup>>
    /\ UNCHANGED <<streamVars, vadVars, diarVars, speakerVars, ttsVars>>

\* add_audio: the extend of the segment buffer, and back to receive_bytes
ExtendSegment(c) ==
    /\ sv_running = [c |-> c, at |-> "add_audio"]
    /\ sv_conns' = [sv_conns EXCEPT ![c].segment_appends = @ + 1]
    /\ sv_running' = Idle
    /\ UNCHANGED <<sv_registry, sv_lookup>>
    /\ UNCHANGED <<streamVars, vadVars, diarVars, speakerVars, ttsVars>>

\* process_streaming: a tick reads the segment buffer for the VAD and, when
\* it transcribes, for the transcription, which it then calls
TickReads(c, transcribes) ==
    /\ LoopFree(sv_running)
    /\ sv_conns[c].st \in {"open", "closed"}
    /\ sv_conns[c].segment_appends > 0
    /\ sv_conns' = [sv_conns EXCEPT ![c].read =
                        [rolling |-> sv_conns[c].rolling_appends,
                         segment |-> sv_conns[c].segment_appends]]
    /\ sv_running' = IF transcribes THEN [c |-> c, at |-> "transcribe"] ELSE Idle
    /\ UNCHANGED <<sv_registry, sv_lookup>>
    /\ UNCHANGED <<streamVars, vadVars, diarVars, speakerVars, ttsVars>>

\* process_streaming: whisper_model.transcribe returns
TranscribeReturns(c) ==
    /\ sv_running = [c |-> c, at |-> "transcribe"]
    /\ sv_running' = Idle
    /\ UNCHANGED <<sv_conns, sv_registry, sv_lookup>>
    /\ UNCHANGED <<streamVars, vadVars, diarVars, speakerVars, ttsVars>>

\* the client goes away
ClientCloses(c) ==
    /\ sv_conns[c].st = "open"
    /\ sv_conns' = [sv_conns EXCEPT ![c].st = "closed"]
    /\ UNCHANGED <<sv_running, sv_registry, sv_lookup>>
    /\ UNCHANGED <<streamVars, vadVars, diarVars, speakerVars, ttsVars>>

\* websocket_endpoint, except WebSocketDisconnect: the loop task is
\* cancelled, the rolling buffer is read, and the high-quality pass is called
\* when the audio is long enough
DisconnectHandler(c) ==
    /\ LoopFree(sv_running)
    /\ sv_conns[c].st = "closed"
    /\ sv_conns[c].inbox = 0
    /\ LET runs == RunsFinalPass(sv_conns[c].rolling_appends * ServerFrameSamples)
       IN  /\ sv_conns' = [sv_conns EXCEPT
                  ![c].read = [rolling |-> sv_conns[c].rolling_appends,
                               segment |-> sv_conns[c].segment_appends],
                  ![c].st = IF runs THEN "passing" ELSE "ended",
                  ![c].pass = IF runs THEN "none" ELSE "skipped"]
           /\ sv_running' = IF runs THEN [c |-> c, at |-> "pass"] ELSE Idle
    /\ UNCHANGED <<sv_registry, sv_lookup>>
    /\ UNCHANGED <<streamVars, vadVars, diarVars, speakerVars, ttsVars>>

\* websocket_endpoint: the high-quality pass returns and its result is
\* stored, or one of its steps raises and nothing is stored
PassReturns(c, outcome) ==
    /\ sv_running = [c |-> c, at |-> "pass"]
    /\ sv_conns' = [sv_conns EXCEPT ![c].st = "ended", ![c].pass = outcome]
    /\ sv_registry' = IF outcome = "ok"
                      THEN StoreResult(sv_registry, sv_conns[c].id, [by |-> c])
                      ELSE sv_registry
    /\ sv_running' = Idle
    /\ UNCHANGED sv_lookup
    /\ UNCHANGED <<streamVars, vadVars, diarVars, speakerVars, ttsVars>>

\* mutant: no not-found branch
get_final_transcription_found(registry, id) ==
    [id |-> id, found |-> TRUE,
     data |-> IF id \in DOMAIN registry THEN registry[id] ELSE NoResult]

get_final_transcription(registry, id) ==
    IF id \in DOMAIN registry
    THEN [id |-> id, found |-> TRUE, data |-> registry[id]]
    ELSE [id |-> id, found |-> FALSE, data |-> NoResult]

\* a client asks for the result of a session
Lookup(id) ==
    /\ LoopFree(sv_running)
    /\ sv_lookup' = get_final_transcription(sv_registry, id)
    /\ UNCHANGED <<sv_conns, sv_running, sv_registry>>
    /\ UNCHANGED <<streamVars, vadVars, diarVars, speakerVars, ttsVars>>

InitServer ==
    /\ InitStream
    /\ InitVadIdle
    /\ InitDiarIdle
    /\ InitServerIdle
    /\ InitSpeakersIdle
    /\ InitTtsIdle

NextServer ==
    \/ \E c \in Conns, id \in SessionIds : ClientConnects(c, id)
    \/ \E c \in Conns : Accept(c)
    \/ \E c \in Conns : FrameArrives(c)
    \/ \E c \in Conns : ReceiveBytes(c)
    \/ \E c \in Conns : ExtendSegment(c)
    \/ \E c \in Conns, transcribes \in BOOLEAN : TickReads(c, transcribes)
    \/ \E c \in Conns : TranscribeReturns(c)
    \/ \E c \in Conns : ClientCloses(c)
    \/ \E c \in Conns : DisconnectHandler(c)
    \/ \E c \in Conns, outcome \in PassOutcomes : PassReturns(c, outcome)
    \/ \E id \in SessionIds \cup {"other"} : Lookup(id)

SpecServer == InitServer /\ [][NextServer]_vars

-----------------------------------------------------------------------------
(* Properties *)

LastOf(seq) == seq[Len(seq)]

\* the step is a tick of the loop
IsTick == ticks' = ticks + 1

\* the step is a tick that calls the transcription
IsTranscribingTick == IsTick /\ tick'.transcribed

\* the step is the loop going on from the await of the partial's send
IsPartialSend == pc = "send_partial" /\ pc' \in {"send_final", "sleep"}

\* the step is the loop going on from the await of the final's send
IsFinalSend == pc = "send_final" /\ pc' \in {"sleep", "dead"}

\* C1: the rolling buffer never holds more than 30 s x 16000 = 480000 samples,
\* whatever frames arrive and whatever the loop does in between
C1_RollingBufferBounded ==
    BufferMaxLen = 480000 /\ BufLen(audio_buffer) <= BufferMaxLen

\* more was appended than the buffer holds, and the buffer is full
C1_Witness ==
    total_appended > BufferMaxLen /\ BufLen(audio_buffer) = BufferMaxLen

\* C2: a tick that is not skipped and ends with a non-empty partial text and at
\* least 1.2 s of silence goes on to send a final; that send emits exactly one
\* final with the partial text, appends the text to finalized_segments, clears
\* the partial text and the segment buffer, sets segment_start_time to the
\* tick's time and leaves the rolling buffer alone
C2_SilenceFinal ==
    [][ /\ ( /\ IsTick
             /\ ~tick'.skipped
             /\ current_text' # <<>>
             /\ current_time' - last_speech_time' >= SILENCE_DURATION )
           => pc' = "send_final"
        /\ (IsFinalSend /\ tick.fin = "silence")
           => /\ events' = Append(events, FinalEvent(current_text))
              /\ finalized_segments' = Append(finalized_segments, current_text)
              /\ current_text' = <<>>
              /\ segment_start_time' = current_time
              /\ segment_buffer' = <<>>
              /\ audio_buffer' = audio_buffer ]_vars

\* C3: with speech on the tick, a non-empty partial text and a segment of at
\* least 10 s, the tick goes on to send a final, and that send emits the final
\* and clears the segment buffer
C3_MaxDurationFinal ==
    [][ /\ ( /\ IsTick
             /\ ~tick'.skipped
             /\ tick'.speech
             /\ pc' # "send_partial"
             /\ current_text' # <<>>
             /\ current_time' - segment_start_time >= MAX_SEGMENT_DURATION )
           => pc' = "send_final"
        /\ (IsPartialSend /\ current_time - segment_start_time >= MAX_SEGMENT_DURATION)
           => pc' = "send_final"
        /\ (IsFinalSend /\ tick.speech /\ tick.fin = "max")
           => /\ events' = Append(events, FinalEvent(current_text))
              /\ segment_buffer' = <<>> ]_vars

\* C4: at the end of a tick the segment buffer holds no audio older than
\* 10 s plus one tick period, whatever the transcriptions yielded
C4_SegmentBufferBounded ==
    (pc = "sleep" /\ seg_first_seen # -1)
        => current_time - seg_first_seen <= MAX_SEGMENT_DURATION + TickPeriod

\* C5: the transcription is called only on a tick with speech and a segment of
\* at least 3 s, and any two calls of it are at least min_transcribe_interval
\* apart, whatever the earlier one yielded
C5_AttemptsApart ==
    [][ IsTranscribingTick
            => /\ tick'.speech
               /\ BufLen(segment_buffer) >= 3 * SAMPLE_RATE
               /\ last_attempt # -1
                      => current_time' - last_attempt >= min_transcribe_interval ]_vars

C6_Denylist ==
    { <<"t","h","a","n","k"," ","y","o","u">>,
      <<"t","h","a","n","k","s"," ","f","o","r"," ","w","a","t","c","h","i","n","g">>,
      <<"s","u","b","s","c","r","i","b","e">> }

\* the conditions of C6 on a raw transcription result
C6_Passes(raw) ==
    LET text == Strip(raw)
    IN  /\ text # <<>>
        /\ Cardinality({text[i] : i \in 1..Len(text)} \ {" "}) > 3
        /\ \A phrase \in C6_Denylist : ~Contains(phrase, Lower(text))

\* the step is a tick whose transcription returned
IsReturnedTranscription == IsTranscribingTick /\ tick'.outcome # "exception"

\* what C6 says of the tick's own step: the trimmed text is stored exactly when
\* it passes; otherwise nothing is emitted and nothing changes
C6_StoredIffPasses ==
    /\ IsReturnedTranscription
           => /\ C6_Passes(tick'.raw) <=> pc' = "send_partial"
              /\ C6_Passes(tick'.raw) => current_text' = Strip(tick'.raw)
              /\ ~C6_Passes(tick'.raw)
                     => /\ events' = events
                        /\ current_text' = current_text
                        /\ finalized_segments' = finalized_segments
    /\ (events' # events /\ LastOf(events').type = "partial")
           => /\ IsPartialSend
              /\ tick.outcome = "accepted"
              /\ C6_Passes(tick.raw)
              /\ events' = Append(events, PartialEvent(Strip(tick.raw)))
              /\ current_text = Strip(tick.raw)

\* C6: a result is emitted as a partial and stored exactly when it passes; a
\* result that is rejected or empty emits nothing and changes neither the
\* partial text nor finalized_segments
C6_EmittedIffPasses ==
    [][ /\ C6_StoredIffPasses
        /\ IsPartialSend => events' = Append(events, PartialEvent(current_text)) ]_vars

\* C7: a tick whose transcription raises emits nothing, keeps the partial text
\* and stays in the loop
C7_TranscribeExceptionCaught ==
    [][ (IsTranscribingTick /\ tick'.outcome = "exception")
            => /\ events' = events
               /\ current_text' = current_text
               /\ finalized_segments' = finalized_segments
               /\ pc' \in {"sleep", "send_final"} ]_vars

\* the transcription raised and the loop is back at its sleep
C7_Witness ==
    tick.transcribed /\ tick.outcome = "exception" /\ pc = "sleep"

\* C8: the loop ends only by cancellation
C8_LoopEndsOnlyByCancel ==
    \/ pc \in {"sleep", "send_partial", "send_final"}
    \/ pc = "cancelled" /\ cancel_requested

\* C9: check_vad returns 0.0 without calling the scorer on fewer than 512
\* samples; when the scorer raises it returns 0.9 if the RMS of the window,
\* the last 512 samples, is above 0.01 and 0.1 otherwise; no exception leaves
\* check_vad or the tick's VAD step
C9_CheckVad ==
    vad_out.done
        => /\ BufLen(vad_in) < 512 => (vad_out.prob = 0 /\ ~vad_out.called)
           /\ (BufLen(vad_in) >= 512 /\ vad_scorer.raises)
                  => /\ vad_out.called
                     /\ vad_out.prob \in {100, 900}
                     /\ vad_out.prob = 900
                            <=> RmsAboveThreshold(LastSamples(vad_in, 512))
                     /\ (Len(vad_in) = 1 \/ vad_in[Len(vad_in)].n >= 512)
                            => (vad_out.prob = 900
                                   <=> vad_in[Len(vad_in)].v * vad_in[Len(vad_in)].v
                                           * 10000 > 1073741824)
           /\ ~vad_out.raised
           /\ vad_out.tick_prob = vad_out.prob

\* the scorer raised on a chunk that ends loud after a quiet start
C9_Witness ==
    /\ vad_out.done
    /\ vad_scorer.raises
    /\ Len(vad_in) = 2
    /\ vad_in[1].v = 0
    /\ vad_in[1].n >= 512
    /\ vad_in[2].n >= 512
    /\ vad_out.prob = 900

C11_FailedPassLeavesNoResult ==
    \A c \in Conns :
        sv_conns[c].pass = "fail"
            => /\ sv_conns[c].id \notin DOMAIN sv_registry
               /\ ~get_final_transcription(sv_registry, sv_conns[c].id).found

\* C12: a lookup returns the stored result exactly when a high-quality pass
\* for that session id has completed successfully, and not-found otherwise,
\* also for an id no connection has; it leaves the registry as it is
C12_Lookup ==
    [][ sv_lookup' # sv_lookup
            => /\ sv_registry' = sv_registry
               /\ sv_lookup'.found
                      <=> \E c \in Conns : /\ sv_conns[c].pass = "ok"
                                           /\ sv_conns[c].id = sv_lookup'.id
               /\ sv_lookup'.found
                      => /\ sv_lookup'.data = sv_registry[sv_lookup'.id]
                         /\ sv_conns[sv_lookup'.data.by].pass = "ok"
                         /\ sv_conns[sv_lookup'.data.by].id = sv_lookup'.id
               /\ ~sv_lookup'.found => sv_lookup'.data = NoResult ]_vars

\* a lookup returned the result of a session while the pass of another
\* connection had failed
C12_Witness ==
    /\ sv_lookup.found
    /\ \E c \in Conns : sv_conns[c].pass = "fail" /\ sv_conns[c].id # sv_lookup.id

\* C13: while a transcription or a high-quality pass is in progress, the
\* receiver of every connection with a frame waiting can receive it and a
\* pending connection can be accepted
C13_ReceiverNotBlocked ==
    \A c \in Conns :
        sv_running.at \in {"transcribe", "pass"}
            => /\ (sv_conns[c].st = "open" /\ sv_conns[c].inbox > 0)
                      => ENABLED ReceiveBytes(c)
               /\ sv_conns[c].st = "pending" => ENABLED Accept(c)

\* C14: every read of a buffer finds both buffers after the same whole number
\* of appends
C14_ReadsSeeWholeAppends ==
    \A c \in Conns : sv_conns[c].read.rolling = sv_conns[c].read.segment

\* a buffer was read between two appends, the second frame waiting
C14_Witness ==
    \E c \in Conns : /\ sv_conns[c].read.rolling = 1
                     /\ sv_conns[c].read.segment = 1
                     /\ sv_conns[c].inbox = 1

\* C15: a frame that cannot be decoded is rejected and the session goes on:
\* the buffers keep their contents, the receiver keeps receiving and the loop
\* is not cancelled
C15_MalformedFrameRejected ==
    [][ (frames' = frames + 1 /\ total_appended' = total_appended)
            => /\ audio_buffer' = audio_buffer
               /\ segment_buffer' = segment_buffer
               /\ rx' = "receiving"
               /\ cancel_requested' = cancel_requested ]_vars

\* C16: every segment of a stored result or of a batch response has a
\* speaker, and the speaker is SPEAKER_00 when diarization is unavailable or
\* yields no turns
C16_SpeakerAlwaysAssigned ==
    (dz_out.op \in {"pass", "batch"} /\ dz_out.status = 200)
        => \A i \in 1..Len(dz_out.segments) :
               /\ "speaker" \in DOMAIN dz_out.segments[i]
               /\ (~dz_enabled \/ dz_turns = <<>>)
                      => dz_out.segments[i].speaker = "SPEAKER_00"

\* perform_speaker_diarization: MIN_SEGMENT_DURATION = 0.4
C17_MinTurnDuration == 4

\* C17: with the engine available and yielding turns,
\* perform_speaker_diarization returns the turns of at least 0.4 s, smoothed
C17_ReturnsSmoothedTurns ==
    (dz_out.op = "perform" /\ dz_enabled /\ dz_turns # <<>>)
        => /\ ~dz_out.value.none
           /\ dz_out.value.turns =
                  smooth_speaker_changes(
                      SelectSeq(dz_turns,
                                LAMBDA t : t.end - t.start >= C17_MinTurnDuration),
                      5)

C18_Turns ==
    << [start |-> 0, end |-> 3, speaker |-> "A"],
       [start |-> 3, end |-> 5, speaker |-> "B"],
       [start |-> 5, end |-> 20, speaker |-> "A"] >>

\* C18, as stated: smoothing of [(0,0.3,A),(0.3,0.5,B),(0.5,2.0,A)] yields the
\* single turn (0,2.0,A)
C18_SingleTurn ==
    (dz_out.op = "smooth" /\ dz_turns = C18_Turns)
        => dz_out.turns = << [start |-> 0, end |-> 20, speaker |-> "A"] >>

\* C18, amended: smoothing of [(0,0.3,A),(0.3,0.5,B),(0.5,2.0,A)] merges the
\* B turn into the first A turn and keeps the last turn: it yields
\* [(0,0.5,A),(0.5,2.0,A)]
C18_TwoTurns ==
    (dz_out.op = "smooth" /\ dz_turns = C18_Turns)
        => dz_out.turns = << [start |-> 0, end |-> 5, speaker |-> "A"],
                             [start |-> 5, end |-> 20, speaker |-> "A"] >>

C18_Witness == dz_out.op = "smooth" /\ dz_turns = C18_Turns

\* the time, in tenths of a second, that a segment and a turn share
C19_Shared(seg, turn) ==
    Cardinality((seg.start .. (seg.end - 1)) \cap (turn.start .. (turn.end - 1)))

C19_Turns ==
    << [start |-> 0, end |-> 30, speaker |-> "A"],
       [start |-> 30, end |-> 60, speaker |-> "B"] >>

\* C19: a segment that overlaps some turn gets the speaker of a turn of
\* maximal overlap; segment (2.0,3.5) against [(0,3.0,A),(3.0,6.0,B)] gets A
C19_MaxOverlapSpeaker ==
    dz_out.op = "assign"
        => /\ \A i \in 1..Len(dz_out.segments) :
                  LET seg == dz_out.segments[i]
                  IN  (\E k \in 1..Len(dz_turns) : C19_Shared(seg, dz_turns[k]) > 0)
                          => \E k \in 1..Len(dz_turns) :
                                 /\ seg.speaker = dz_turns[k].speaker
                                 /\ \A j \in 1..Len(dz_turns) :
                                        C19_Shared(seg, dz_turns[j])
                                            <= C19_Shared(seg, dz_turns[k])
           /\ ( /\ dz_turns = C19_Turns
                /\ Len(dz_segments) = 1
                /\ dz_segments[1].start = 20
                /\ dz_segments[1].end = 35 )
                  => dz_out.segments[1].speaker = "A"

\* segment (2.0,3.5) was aligned against [(0,3.0,A),(3.0,6.0,B)]
C19_Witness ==
    /\ dz_out.op = "assign"
    /\ dz_turns = C19_Turns
    /\ Len(dz_out.segments) = 1
    /\ dz_out.segments[1].start = 20
    /\ dz_out.segments[1].end = 35

\* segment (2.0,4.0) was aligned against [(0,3.0,A),(3.0,6.0,B)]
C20_Case ==
    /\ dz_out.op = "assign"
    /\ dz_turns = C19_Turns
    /\ Len(dz_out.segments) = 1
    /\ dz_out.segments[1].start = 20
    /\ dz_out.segments[1].end = 40

\* C20, as stated: segment (2.0,4.0) against [(0,3.0,A),(3.0,6.0,B)] gets B
C20_TieGoesToB == C20_Case => dz_out.segments[1].speaker = "B"

\* C20, amended: segment (2.0,4.0) against [(0,3.0,A),(3.0,6.0,B)], which it
\* overlaps by 1.0 s each, gets A, the first of the two turns
C20_TieGoesToA ==
    C20_Case => /\ C19_Shared(dz_out.segments[1], dz_turns[1]) = 10
                /\ C19_Shared(dz_out.segments[1], dz_turns[2]) = 10
                /\ dz_out.segments[1].speaker = "A"

C20_Witness == C20_Case /\ dz_out.segments[1].text = <<"h", "i">>

\* twice the distance from the nearer endpoint of a turn to the midpoint of a
\* segment
C21_Distance(seg, turn) ==
    LET ds == 2 * turn.start - (seg.start + seg.end)
        de == 2 * turn.end - (seg.start + seg.end)
        as == IF ds < 0 THEN -ds ELSE ds
        ae == IF de < 0 THEN -de ELSE de
    IN  IF as < ae THEN as ELSE ae

C21_MidIn(seg, turn) ==
    /\ 2 * turn.start <= seg.start + seg.end
    /\ seg.start + seg.end <= 2 * turn.end

\* C21: against a non-empty turn list, a segment that overlaps no turn gets
\* the speaker of the first turn that contains its midpoint, or else of a turn
\* nearest to its midpoint; every output segment has the label of an input
\* turn, and the output keeps the number, order, text, start and end of the
\* transcript segments
C21_Fallback ==
    (dz_out.op = "assign" /\ dz_turns # <<>>)
        => LET input == TranscriptionSegments(dz_segments)
               out == dz_out.segments
               n == Len(dz_turns)
           IN  /\ Len(out) = Len(input)
               /\ \A i \in 1..Len(out) :
                      /\ out[i].text = input[i].text
                      /\ out[i].start = input[i].start
                      /\ out[i].end = input[i].end
                      /\ \E k \in 1..n : out[i].speaker = dz_turns[k].speaker
                      /\ (\A k \in 1..n : C19_Shared(input[i], dz_turns[k]) = 0)
                            => IF \E k \in 1..n : C21_MidIn(input[i], dz_turns[k])
                               THEN \E k \in 1..n :
                                        /\ C21_MidIn(input[i], dz_turns[k])
                                        /\ \A j \in 1..(k - 1) :
                                               ~C21_MidIn(input[i], dz_turns[j])
                                        /\ out[i].speaker = dz_turns[k].speaker
                               ELSE \E k \in 1..n :
                                        /\ \A j \in 1..n :
                                               C21_Distance(input[i], dz_turns[k])
                                                   <= C21_Distance(input[i], dz_turns[j])
                                        /\ out[i].speaker = dz_turns[k].speaker

\* the segment (3.0,3.0), which overlaps neither (0,3.0,A) nor (3.0,6.0,B) and
\* whose midpoint both contain, was given A
C21_Witness ==
    /\ dz_out.op = "assign"
    /\ dz_turns = C19_Turns
    /\ Len(dz_out.segments) = 1
    /\ dz_out.segments[1].start = 30
    /\ dz_out.segments[1].end = 30
    /\ dz_out.segments[1].speaker = "A"

\* a segment in a gap, its midpoint in no turn, was given the nearest turn's
\* speaker
C21_ClosestReached ==
    /\ dz_out.op = "assign"
    /\ dz_turns = << [start |-> 0, end |-> 20, speaker |-> "A"],
                     [start |-> 30, end |-> 60, speaker |-> "B"] >>
    /\ Len(dz_out.segments) = 2
    /\ dz_out.segments[2].start = 21
    /\ dz_out.segments[2].speaker = "A"

\* the state of the session of the call
C22_State == session_speaker_profiles[sp_call.session_id]

\* a step of the loop of assign_persistent_speakers on turn i
C22_TurnStep(i) ==
    /\ sp_call.st = "running"
    /\ sp_call.i = i
    /\ sp_call'.i = i + 1

\* turn i is of at least 1 s, lies inside the audio, and its label is not yet
\* resolved in this call: an embedding is computed for it
C22_Embedded(i) ==
    /\ sp_call.raw[i].end - sp_call.raw[i].start >= Second
    /\ sp_call.raw[i].end <= 4 * Second
    /\ sp_call.raw[i].speaker \notin DOMAIN sp_call.label_cache

C22_Dot(a, b) == a.num[1] * b.num[1] + a.num[2] * b.num[2]

\* the cosine similarity of a and b is at least 0.82 (0.82^2 = 1681/2500)
C22_Similar(a, b) ==
    /\ C22_Dot(a, b) >= 0
    /\ C22_Dot(a, a) * C22_Dot(b, b) > 0
    /\ 2500 * C22_Dot(a, b) * C22_Dot(a, b) >= 1681 * C22_Dot(a, a) * C22_Dot(b, b)

\* new = (old * count + emb) / (count + 1), component k
C22_IsMean(new, old, count, emb) ==
    \A k \in 1..2 :
        (count + 1) * new.num[k] * old.den * emb.den
            = (count * old.num[k] * emb.den + emb.num[k] * old.den) * new.den

\* C22: when the session has the one profile that a first turn made and a next
\* turn's embedding has cosine similarity >= 0.82 to it, the turn gets that
\* profile's id, the profile's count goes up by one (to 2 after two turns) and
\* its centroid becomes (centroid * count + embedding) / (count + 1)
C22_Merge ==
    [][ \A i \in 1..Len(sp_call.raw) :
          ( /\ C22_TurnStep(i)
            /\ C22_Embedded(i)
            /\ Len(C22_State.profiles) = 1
            /\ C22_Similar(C22_State.profiles[1].embedding, sp_call.raw[i].voice) )
          => LET old == C22_State.profiles[1]
                 new == session_speaker_profiles'[sp_call.session_id].profiles
             IN  /\ sp_call'.speaker_segments[i].speaker = old.id
                 /\ Len(new) = 1
                 /\ new[1].id = old.id
                 /\ new[1].count = old.count + 1
                 /\ C22_IsMean(new[1].embedding, old.embedding, old.count,
                               sp_call.raw[i].voice)
                 /\ ( /\ i = 2
                      /\ DOMAIN sp_call.label_cache = {sp_call.raw[1].speaker}
                      /\ old.count = 1 )
                        => /\ new[1].count = 2
                           /\ sp_call'.speaker_segments[1].speaker
                                  = sp_call'.speaker_segments[2].speaker ]_vars

\* two turns of different labels and of embeddings (1,1) and (1,3), of cosine
\* similarity 0.894, were given the same id, and the profile holds both
C22_Witness ==
    /\ sp_enabled
    /\ sp_call.session_id = "s1"
    /\ sp_call.st = "returned"
    /\ Len(sp_call.raw) = 2
    /\ sp_call.raw[1].speaker # sp_call.raw[2].speaker
    /\ sp_call.raw[1].voice = [num |-> <<1, 1>>, den |-> 1]
    /\ sp_call.raw[2].voice = [num |-> <<1, 3>>, den |-> 1]
    /\ sp_call.computed = <<1, 2>>
    /\ sp_call.speaker_segments[1].speaker = "SPEAKER_00"
    /\ sp_call.speaker_segments[2].speaker = "SPEAKER_00"
    /\ C22_State.profiles = << [id |-> "SPEAKER_00",
                                embedding |-> [num |-> <<1, 2>>, den |-> 1],
                                count |-> 2] >>

\* "SPEAKER_" and the number n in two digits
C23_Id(n) ==
    IF n = 0 THEN "SPEAKER_00" ELSE IF n = 1 THEN "SPEAKER_01"
    ELSE IF n = 2 THEN "SPEAKER_02" ELSE IF n = 3 THEN "SPEAKER_03"
    ELSE IF n = 4 THEN "SPEAKER_04" ELSE IF n = 5 THEN "SPEAKER_05"
    ELSE IF n = 6 THEN "SPEAKER_06" ELSE "SPEAKER_07"

\* C23: when the session has profiles and a next turn's embedding has cosine
\* similarity below 0.82 to every stored centroid, the turn gets a new id,
\* distinct from every existing one and of the next number, and a profile of
\* that id, of the embedding as centroid and of count 1 is added
C23_NewProfile ==
    [][ \A i \in 1..Len(sp_call.raw) :
          ( /\ C22_TurnStep(i)
            /\ C22_Embedded(i)
            /\ C22_State.profiles # <<>>
            /\ \A k \in 1..Len(C22_State.profiles) :
                   ~C22_Similar(C22_State.profiles[k].embedding, sp_call.raw[i].voice) )
          => LET old == C22_State.profiles
                 new == session_speaker_profiles'[sp_call.session_id].profiles
                 id == sp_call'.speaker_segments[i].speaker
             IN  /\ \A k \in 1..Len(old) : old[k].id # id
                 /\ id = C23_Id(Len(old))
                 /\ new = Append(old, [id |-> id, embedding |-> sp_call.raw[i].voice,
                                       count |-> 1]) ]_vars

\* two turns of embeddings (1,3) and (3,1), of cosine similarity 0.6, were
\* given two ids
C23_Witness ==
    /\ sp_enabled
    /\ sp_call.session_id = "s1"
    /\ sp_call.st = "returned"
    /\ Len(sp_call.raw) = 2
    /\ sp_call.raw[1].voice = [num |-> <<1, 3>>, den |-> 1]
    /\ sp_call.raw[2].voice = [num |-> <<3, 1>>, den |-> 1]
    /\ sp_call.speaker_segments[1].speaker = "SPEAKER_00"
    /\ sp_call.speaker_segments[2].speaker = "SPEAKER_01"
    /\ Len(C22_State.profiles) = 2
    /\ C22_State.profiles[2] = [id |-> "SPEAKER_01",
                                embedding |-> [num |-> <<3, 1>>, den |-> 1],
                                count |-> 1]

\* the ids of a session's profiles are SPEAKER_00, SPEAKER_01, ... in the
\* order of creation, next_id is their number, and every count is >= 1
C24_WellFormed(registry) ==
    \A id \in DOMAIN registry :
        /\ registry[id].next_id = Len(registry[id].profiles)
        /\ \A k \in 1..Len(registry[id].profiles) :
               /\ registry[id].profiles[k].id = C23_Id(k - 1)
               /\ registry[id].profiles[k].count >= 1
        /\ \A j, k \in 1..Len(registry[id].profiles) :
               j # k => registry[id].profiles[j].id # registry[id].profiles[k].id

\* C24: over any sequence of calls, a session's profile list only grows, the
\* ids are distinct and are SPEAKER_00, SPEAKER_01, ... in creation order with
\* next_id the number of profiles, and no count is below 1 or ever decreases
C24_ProfilesOnlyGrow ==
    [][ /\ C24_WellFormed(session_speaker_profiles')
        /\ \A id \in DOMAIN session_speaker_profiles :
               /\ id \in DOMAIN session_speaker_profiles'
               /\ Len(session_speaker_profiles'[id].profiles)
                      >= Len(session_speaker_profiles[id].profiles)
               /\ \A k \in 1..Len(session_speaker_profiles[id].profiles) :
                      /\ session_speaker_profiles'[id].profiles[k].id
                             = session_speaker_profiles[id].profiles[k].id
                      /\ session_speaker_profiles'[id].profiles[k].count
                             >= session_speaker_profiles[id].profiles[k].count ]_vars

\* two calls of two turns each were made for the session s1: its two profiles
\* hold two turns each
C24_Witness ==
    /\ sp_calls = 2
    /\ sp_call.st = "returned"
    /\ "s1" \in DOMAIN session_speaker_profiles
    /\ Len(session_speaker_profiles["s1"].profiles) = 2
    /\ session_speaker_profiles["s1"].profiles[1].count = 2
    /\ session_speaker_profiles["s1"].profiles[2].count = 2

\* C25: a turn whose raw label was resolved earlier in the same call gets the
\* id the label was resolved to, no embedding is computed for it, and no
\* profile, no next_id and no entry of the label cache changes
C25_CachedLabel ==
    [][ \A i \in 1..Len(sp_call.raw) :
          (C22_TurnStep(i) /\ sp_call.raw[i].speaker \in DOMAIN sp_call.label_cache)
          => /\ sp_call'.speaker_segments[i].speaker
                    = sp_call.label_cache[sp_call.raw[i].speaker]
             /\ sp_call'.computed = sp_call.computed
             /\ sp_call'.label_cache = sp_call.label_cache
             /\ session_speaker_profiles' = session_speaker_profiles ]_vars

\* two turns of 2.0 s and 1.0 s of the label SPEAKER_01: an embedding was
\* computed for the first only, and both were given SPEAKER_00
C25_Witness ==
    /\ sp_enabled
    /\ sp_call.session_id = "s1"
    /\ sp_call.st = "returned"
    /\ Len(sp_call.raw) = 2
    /\ sp_call.raw[1].speaker = "SPEAKER_01"
    /\ sp_call.raw[2].speaker = "SPEAKER_01"
    /\ sp_call.raw[2].end - sp_call.raw[2].start = Second
    /\ sp_call.raw[1].voice # sp_call.raw[2].voice
    /\ sp_call.computed = <<1>>
    /\ sp_call.speaker_segments[1].speaker = "SPEAKER_00"
    /\ sp_call.speaker_segments[2].speaker = "SPEAKER_00"
    /\ C22_State.profiles[1].count = 1

\* the turn is left as the diarization engine gave it, and neither a profile
\* nor the label cache changes
C26_Untouched(i) ==
    /\ sp_call'.speaker_segments[i].speaker = sp_call.raw[i].speaker
    /\ session_speaker_profiles' = session_speaker_profiles
    /\ sp_call'.label_cache = sp_call.label_cache

\* a call without a session id, or with the embedding primitive unavailable,
\* returns the turns as they are and leaves the registry as it is
C26_CallWithoutEffect ==
    ( /\ sp_call'.st = "returned"
      /\ sp_calls' = sp_calls + 1
      /\ (sp_call'.session_id = "" \/ ~sp_enabled) )
    => /\ sp_call'.speaker_segments = sp_call'.raw
       /\ session_speaker_profiles' = session_speaker_profiles
       /\ "" \notin DOMAIN session_speaker_profiles'

\* C26, as stated: a turn of a span shorter than 0.8 s keeps its raw label,
\* creates or updates no profile and adds nothing to the label cache; a call
\* without a session id or without the embedding primitive changes nothing
C26_ShortTurnKeepsLabel ==
    [][ /\ C26_CallWithoutEffect
        /\ \A i \in 1..Len(sp_call.raw) :
               ( /\ C22_TurnStep(i)
                 /\ 10 * (sp_call.raw[i].end - sp_call.raw[i].start) < 8 * Second )
               => C26_Untouched(i) ]_vars

\* the number of samples of the audio that a turn covers
C26_Samples(turn, audio_len) ==
    LET first == turn.start \div 10
        last == IF turn.end \div 10 < audio_len THEN turn.end \div 10 ELSE audio_len
    IN  last - first

\* C26, amended: a turn whose raw label was not resolved earlier in the call
\* and whose span covers fewer than 12800 samples of the audio keeps its raw
\* label, creates or updates no profile and adds nothing to the label cache;
\* a call without a session id or without the embedding primitive changes
\* nothing
C26_UnresolvedShortTurnKeepsLabel ==
    [][ /\ C26_CallWithoutEffect
        /\ \A i \in 1..Len(sp_call.raw) :
               ( /\ C22_TurnStep(i)
                 /\ sp_call.raw[i].speaker \notin DOMAIN sp_call.label_cache
                 /\ C26_Samples(sp_call.raw[i], sp_call.audio_len) < 12800 )
               => C26_Untouched(i) ]_vars

\* a turn of 2.0 s was resolved and a turn of 0.5 s of another label after it
\* was left with its raw label
C26_Witness ==
    /\ sp_enabled
    /\ sp_call.session_id = "s1"
    /\ sp_call.st = "returned"
    /\ Len(sp_call.raw) = 2
    /\ sp_call.raw[1].speaker = "SPEAKER_00"
    /\ sp_call.raw[2].speaker = "SPEAKER_01"
    /\ 2 * (sp_call.raw[2].end - sp_call.raw[2].start) = Second
    /\ sp_call.computed = <<1, 2>>
    /\ sp_call.speaker_segments[1].speaker = "SPEAKER_00"
    /\ sp_call.speaker_segments[2].speaker = "SPEAKER_01"
    /\ DOMAIN sp_call.label_cache = {"SPEAKER_00"}
    /\ Len(C22_State.profiles) = 1

\* the similarity of a to e is at least that of b to e
C27_AtLeastAsSimilar(a, b, e) ==
    LET da == C22_Dot(a, e)
        db == C22_Dot(b, e)
        sa == IF da >= 0 THEN da * da ELSE -(da * da)
        sb == IF db >= 0 THEN db * db ELSE -(db * db)
    IN  sa * C22_Dot(b, b) >= sb * C22_Dot(a, a)

\* the profiles whose centroid is of maximal similarity to e
C27_Nearest(profiles, e) ==
    {k \in 1..Len(profiles) :
        \A j \in 1..Len(profiles) :
            C27_AtLeastAsSimilar(profiles[k].embedding, profiles[j].embedding, e)}

C27_Min(S) == CHOOSE k \in S : \A j \in S : k <= j

\* C27: when several profiles are of the same maximal similarity to a turn's
\* embedding and that similarity is >= 0.82, the turn is merged into the one
\* created first, and into no other
C27_TieGoesToEarliest ==
    [][ \A i \in 1..Len(sp_call.raw) :
          LET old == C22_State.profiles
              near == C27_Nearest(old, sp_call.raw[i].voice)
          IN  ( /\ C22_TurnStep(i)
                /\ C22_Embedded(i)
                /\ Cardinality(near) >= 2
                /\ \A k \in near : C22_Similar(old[k].embedding, sp_call.raw[i].voice) )
              => LET new == session_speaker_profiles'[sp_call.session_id].profiles
                     first == C27_Min(near)
                 IN  /\ sp_call'.speaker_segments[i].speaker = old[first].id
                     /\ Len(new) = Len(old)
                     /\ new[first].count = old[first].count + 1
                     /\ \A k \in 1..Len(old) : k # first => new[k] = old[k] ]_vars

\* the session had the profiles of centroids (1,3) and (3,1); a turn of
\* embedding (1,1), as similar to the one as to the other (0.894), was merged
\* into the first
C27_Witness ==
    /\ sp_enabled
    /\ sp_call.session_id = "s1"
    /\ sp_calls = 2
    /\ sp_call.st = "returned"
    /\ Len(sp_call.raw) = 1
    /\ sp_call.raw[1].voice = [num |-> <<1, 1>>, den |-> 1]
    /\ sp_call.speaker_segments[1].speaker = "SPEAKER_00"
    /\ C22_State.profiles = << [id |-> "SPEAKER_00",
                                embedding |-> [num |-> <<1, 2>>, den |-> 1],
                                count |-> 2],
                               [id |-> "SPEAKER_01",
                                embedding |-> [num |-> <<3, 1>>, den |-> 1],
                                count |-> 1] >>

\* the samples of a run-length sequence from the k-th arrived on
RECURSIVE C28_From(_, _)
C28_From(runs, k) ==
    IF runs = <<>> THEN <<>>
    ELSE LET r == Head(runs)
             last == r.lo + r.n - 1
         IN  IF last < k THEN C28_From(Tail(runs), k)
             ELSE IF r.lo >= k THEN runs
             ELSE <<[lo |-> k, n |-> last - k + 1, v |-> r.v]>> \o Tail(runs)

C28_Held == IF total_appended < 480000 THEN total_appended ELSE 480000

\* the rolling buffer holds the latest min(total, 480000) samples in the order
\* of arrival
C28_RollingIsLatest ==
    audio_buffer = C28_From(arrived, total_appended - C28_Held + 1)

\* C28: after every add_audio the rolling buffer holds the latest
\* min(total appended, 480000) samples in the order of arrival, and the
\* segment buffer holds, in that order, what it held followed by the samples
\* just appended; a step that is no add_audio either clears it or leaves it
C28_BufferContents ==
    [][ /\ C28_RollingIsLatest'
        /\ \/ segment_buffer' = <<>> /\ arrived' = arrived
           \/ segment_buffer' = segment_buffer \o C28_From(arrived', total_appended + 1) ]_vars

\* 900000 samples arrived: the rolling buffer dropped 420000 of them, and the
\* segment buffer, cleared by a final after the first frame, holds the second
C28_Witness ==
    /\ total_appended > 480000
    /\ finalized_segments # <<>>
    /\ segment_buffer # <<>>
    /\ BufLen(segment_buffer) < BufLen(audio_buffer)
    /\ segment_buffer[1].lo > audio_buffer[1].lo

\* C29: a voice-cloning request with a text that arrives while the model is
\* still loading, or after the load has failed, is answered with status 503
C29_NotReadyIs503 ==
    \A i \in 1..Len(tts_log) :
        ( /\ tts_log[i].endpoint = "synthesize_with_voice"
          /\ Strip(tts_log[i].text) # <<>>
          /\ tts_log[i].tts_model = "None" )
        => tts_log[i].status = 503

\* the step in which the disconnect handler begins the full-session pass
C30_PassBegins == pass_runs' = pass_runs + 1

\* the loop task has ended: by cancellation, or earlier by an exception
C30_LoopEnded == pc' \in {"cancelled", "dead"}

\* once the handler has taken the disconnect, no event is emitted and the
\* loop changes neither the texts nor the buffers
C30_QuietAfterDisconnect ==
    rx = "disconnected" =>
        /\ events' = events
        /\ ~IsTick
        /\ UNCHANGED <<current_text, finalized_segments, audio_buffer, segment_buffer>>

\* C30: on disconnect the evaluation loop has ended when the handler begins the
\* full-session pass, and after the disconnect no partial or final event is
\* emitted and no tick changes the partial text, the finalized segments or the
\* buffers
C30_LoopEndedBeforePass ==
    [][ /\ C30_PassBegins => C30_LoopEnded
        /\ C30_QuietAfterDisconnect ]_vars

\* the texts of the final events among the first n events, in emission order
RECURSIVE C32_FinalTexts(_)
C32_FinalTexts(n) ==
    IF n = 0 THEN <<>>
    ELSE IF events[n].type = "final"
         THEN Append(C32_FinalTexts(n - 1), events[n].text)
         ELSE C32_FinalTexts(n - 1)

\* C32: finalized_segments is exactly the sequence of the texts of the final
\* events emitted so far, in emission order, and none of them is empty; so
\* also after a cancellation or a failed send in a finalizing tick
C32_FinalizedAreFinals ==
    /\ finalized_segments = C32_FinalTexts(Len(events))
    /\ \A i \in 1..Len(finalized_segments) : finalized_segments[i] # <<>>

\* a final was emitted, and afterwards the loop was cancelled or its send failed
C32_Witness ==
    /\ finalized_segments # <<>>
    /\ pc \in {"cancelled", "dead"}

\* the indices of the turns that smoothing keeps among the first i turns: the
\* first and the last turn always; an interior turn unless it is shorter than
\* the minimum switch duration, its speaker differs from the last kept turn's,
\* and the last kept turn and the turn after it have the same speaker
RECURSIVE C33_Kept(_, _)
C33_Kept(turns, i) ==
    IF i = 1 THEN <<1>>
    ELSE LET kept == C33_Kept(turns, i - 1)
             last == turns[kept[Len(kept)]]
         IN  IF /\ i < Len(turns)
                /\ turns[i].end - turns[i].start < DefaultMinSwitch
                /\ turns[i].speaker # last.speaker
                /\ last.speaker = turns[i + 1].speaker
             THEN kept
             ELSE Append(kept, i)

\* the index of the last turn that the kept turn k absorbs, k itself if none
C33_Through(turns, kept, k) ==
    IF k = Len(kept) THEN kept[k] ELSE kept[k + 1] - 1

\* C33: smoothing returns a list of fewer than 3 turns unchanged; of a longer
\* list it keeps the first and the last turn, removes an interior turn exactly
\* when it is short, differs in speaker from the last kept turn, and that turn
\* and the following turn have the same speaker, extends the last kept turn's
\* end to the removed turn's end, and keeps every other turn as it is; the
\* output starts where the first turn starts and ends where the last ends
C33_Smoothing ==
    dz_out.op = "smooth" =>
        IF Len(dz_turns) < 3 THEN dz_out.turns = dz_turns
        ELSE LET kept == C33_Kept(dz_turns, Len(dz_turns))
             IN  /\ Len(dz_out.turns) = Len(kept)
                 /\ \A k \in 1..Len(kept) :
                        /\ dz_out.turns[k].start = dz_turns[kept[k]].start
                        /\ dz_out.turns[k].speaker = dz_turns[kept[k]].speaker
                        /\ dz_out.turns[k].end =
                               dz_turns[C33_Through(dz_turns, kept, k)].end
                 /\ kept[1] = 1
                 /\ kept[Len(kept)] = Len(dz_turns)
                 /\ dz_out.turns[1].start = dz_turns[1].start
                 /\ dz_out.turns[Len(kept)].end = dz_turns[Len(dz_turns)].end

\* four turns were smoothed: a short turn was absorbed, and the short turn
\* after it was kept although the input turn before it and the turn after it
\* have the same speaker
C33_Witness ==
    /\ dz_out.op = "smooth"
    /\ Len(dz_turns) = 4
    /\ Len(dz_out.turns) = 3
    /\ dz_turns[3].end - dz_turns[3].start < DefaultMinSwitch
    /\ dz_turns[2].speaker = dz_turns[4].speaker
    /\ dz_turns[3].speaker # dz_turns[2].speaker
    /\ dz_out.turns[1].end = dz_turns[2].end

\* C34: once the result of a connection's pass is stored in the registry, no
\* other connection's finalization replaces or removes it, also when the
\* connections were opened without a session_id
C34_ResultsNotOverwritten ==
    [][\A id \in DOMAIN sv_registry :
           /\ id \in DOMAIN sv_registry'
           /\ sv_registry'[id].by = sv_registry[id].by]_vars

\* the step emits a final that the max-duration trigger asked for
C35_MaxFinal ==
    /\ IsFinalSend
    /\ Len(events') = Len(events) + 1
    /\ tick.fin = "max"

\* the step emits a final in the tick that emitted the first partial of the
\* segment
C35_FinalWithFirstPartial ==
    /\ IsFinalSend
    /\ Len(events') = Len(events) + 1
    /\ last_attempt = current_time
    /\ last_attempt_sent
    /\ events[Len(events)].type = "partial"
    /\ (Len(events) = 1 \/ events[Len(events) - 1].type = "final")

\* C35, as stated: the max-duration trigger finalizes a segment only when at
\* least 10 s have passed since the first tick that found speech in it, and the
\* tick that emits the first partial of a segment never emits its final
C35_MaxFinalAfterSpeech ==
    [][ /\ C35_MaxFinal => /\ seg_first_speech # -1
                           /\ current_time - seg_first_speech >= MAX_SEGMENT_DURATION
        /\ ~C35_FinalWithFirstPartial ]_vars

\* the segment's start: the creation of the session, or the latest finalize
C35_SegmentStart == IF last_final_time = -1 THEN 0 ELSE last_final_time

\* C35, amended: the max-duration trigger finalizes a segment only when at
\* least 10 s have passed since the latest finalize, or since the session was
\* created when there was none
C35_MaxFinalAfterStart ==
    [][C35_MaxFinal => current_time - C35_SegmentStart >= MAX_SEGMENT_DURATION]_vars

\* a final of the max-duration trigger was emitted in the tick that found the
\* segment's first speech and emitted its first partial
C35_Witness ==
    /\ tick.fin = "max"
    /\ last_final_time = current_time
    /\ last_attempt = current_time
    /\ tick.speech
    /\ Len(events) >= 2
    /\ events[Len(events)].type = "final"
    /\ events[Len(events) - 1].type = "partial"
    /\ (Len(events) = 2 \/ events[Len(events) - 2].type = "final")

\* the ids of the profiles of the session of the latest call
C36_ProfileIds ==
    LET profiles == session_speaker_profiles[sp_call.session_id].profiles
    IN  {profiles[k].id : k \in 1..Len(profiles)}

\* C36: when a call of assign_persistent_speakers with a session id has
\* returned, all turns that share a raw label have the same speaker id, and
\* every turn's speaker id is the id of a profile of the session
C36_LabelsResolved ==
    ( /\ sp_call.st = "returned"
      /\ sp_enabled
      /\ sp_call.session_id # ""
      /\ sp_call.raw # <<>> )
    => /\ \A i, j \in 1..Len(sp_call.raw) :
              sp_call.raw[i].speaker = sp_call.raw[j].speaker
                  => sp_call.speaker_segments[i].speaker =
                         sp_call.speaker_segments[j].speaker
       /\ \A i \in 1..Len(sp_call.raw) :
              sp_call.speaker_segments[i].speaker \in C36_ProfileIds

\* C37: every final event carries the text of the latest partial event sent
\* since the final before it; no final comes without such a partial
C37_FinalRepeatsPartial ==
    \A n \in 1..Len(events) :
        events[n].type = "final"
            => /\ n > 1
               /\ events[n - 1].type = "partial"
               /\ events[n - 1].text = events[n].text

\* a final was emitted for a segment that had two partials of different texts
C37_Witness ==
    /\ Len(events) >= 3
    /\ events[Len(events)].type = "final"
    /\ events[Len(events) - 2].type = "partial"
    /\ events[Len(events) - 2].text # events[Len(events) - 1].text

\* C38: no sample is removed from the segment buffer without having been
\* part of the input of a transcription call: at every finalize that clears
\* the segment buffer, the buffer holds no sample that arrived after the
\* latest transcription call read it.
C38_ClearedWasTranscribed ==
    [][(IsFinalSend /\ Len(events') = Len(events) + 1) => ~untranscribed]_vars

C31_LoopStopped == cancel_requested \/ pc \in {"cancelled", "dead"}

\* the machine is back in Idle and the latest event is a final
C31_FinalizedAndIdle ==
    /\ current_text = <<>>
    /\ segment_buffer = <<>>
    /\ events # <<>>
    /\ events[Len(events)].type = "final"

\* C31: whenever the current partial text is non-empty (in a segment whose
\* maximum duration ends within the observed time) and the loop keeps ticking
\* without being cancelled, a final event is eventually emitted and the
\* machine returns to Idle (empty partial text, empty segment buffer),
\* whatever the VAD results and audio arrivals in between.
C31_EventuallyFinal ==
    (current_text # <<>> /\ segment_start_time + MAX_SEGMENT_DURATION <= MaxTime)
        ~> (C31_FinalizedAndIdle \/ C31_LoopStopped)

\* C31 witness: a segment that had speech at every tick, and two partials,
\* was finalized at its maximum duration and the machine is back in Idle
C31_Witness ==
    /\ C31_FinalizedAndIdle
    /\ ~C31_LoopStopped
    /\ tick.fin = "max"
    /\ Len(events) >= 3
    /\ events[Len(events) - 2].type = "partial"
    /\ finalized_segments = <<events[Len(events)].text>>

=============================================================================
